---- MODULE Spec2Model ----
(***************************************************************************)
(* Model of the poll-dispatch-act engine of OpenTelegramBot                *)
(* (src/project/Application.cpp): TLPollEngine (start / stop /             *)
(* workerProcedure / getUpdates / checkToken / pushAction), the Server     *)
(* dispatcher (onUpdates / processUpdate) and the ErrorHandler.            *)
(*                                                                         *)
(* Threads: the caller of start(), and the worker std::thread that start() *)
(* spawns.  The worker's blocking points (the getUpdates request, each     *)
(* action's request) and the caller's blocking point (the getMe request)   *)
(* are separate states, so that other threads may act in between.          *)
(*                                                                         *)
(* The source has no try/catch: an exception that leaves workerProcedure   *)
(* leaves the thread's function, which calls std::terminate and aborts the *)
(* process (variable aborted).                                             *)
(***************************************************************************)
EXTENDS Integers, Sequences, FiniteSets, TLC

(* ----------------------------- bounds --------------------------------- *)

\* update_id values the service hands out are 0..MaxUpdateId (TLId is
\* uint64_t; the model stays far below 2^64, so topId + 1 never wraps)
MaxUpdateId == 1

\* longest batch one getUpdates answer carries in the model
MaxBatch == 2

\* number of getUpdates requests a run issues
MaxFetches == 2

\* number of actions pushed over a run
MaxActions == 2

\* number of pushAction calls the processor makes while one update is processed
MaxPushPerUpdate == 1

\* number of actions the application pushes before it calls start()
MaxPushBeforeStart == 1

\* number of start() calls
MaxStartAttempts == 1

\* number of worker threads that can exist
MaxWorkers == 2

\* longest generated message text of the command-extraction specification
MaxTextLen == 3

\* start() calls made again after stop() in the restart specification
MaxRestarts == 1

(* ------------------------- program constants -------------------------- *)

BadAuthorization == 401

NotFound == 404

UpdatesLimit == 256

AwaitTimeout == 15

(* ----------------------------- helpers -------------------------------- *)

\* std::optional<T>: the empty sequence, or a one-element sequence
nullopt == <<>>

has_value(o) == Len(o) = 1

Workers == 1..MaxWorkers

\* the thread that calls start(), and all threads that make requests
CallerThread == 0

Threads == {CallerThread} \cup Workers

\* error codes a non-ok envelope carries in the model (j["error_code"], an int)
ServiceCodes == {0, 401, 404, 500}

\* the ways an HTTP request ends: a response with ok:true, a response with
\* ok:false and an error_code, CURLE_OPERATION_TIMEOUTED, any other CURLcode
HttpOutcomes ==
    {<<"ok">>, <<"timeout">>, <<"curl_error">>} \cup {<<"not_ok", c>> : c \in ServiceCodes}

\* the four kinds of outgoing action
ActionKinds == {"TLSendMessage", "TLReplyMessage", "TLSetChatTitle", "TLSendVideo"}

\* a TLString is a sequence of one-character strings; index i of the
\* std::string is element i + 1 of the sequence
Chars == {"/", "a", "@"}

\* messages of the model: text without entities, text whose only entity is a
\* mention, text with two bot_command entities (the second with offset >=
\* length, as the service sends it for a command that is not at the start:
\* length there is the number of characters), and an edited text
MsgPlain == [text |-> << <<"h", "i">> >>, entities |-> nullopt]

MsgMention ==
    [text |-> << <<"@", "b">> >>,
     entities |-> << << [type |-> "mention", offset |-> 0, length |-> 2] >> >>]

MsgCommand ==
    [text |-> << <<"/", "a", "b", "c", " ", "/", "d", "e">> >>,
     entities |-> << << [type |-> "bot_command", offset |-> 0, length |-> 4],
                        [type |-> "bot_command", offset |-> 5, length |-> 3] >> >>]

MsgEdited == [text |-> << <<"e", "d">> >>, entities |-> nullopt]

\* the payloads an update carries in the model
UpdateShapes ==
    {[message |-> nullopt, edited_message |-> nullopt],
     [message |-> <<MsgPlain>>, edited_message |-> <<MsgEdited>>],
     [message |-> nullopt, edited_message |-> <<MsgEdited>>],
     [message |-> <<MsgMention>>, edited_message |-> nullopt],
     [message |-> <<MsgCommand>>, edited_message |-> nullopt],
     [message |-> <<MsgCommand>>, edited_message |-> <<MsgEdited>>]}

Updates ==
    {[update_id |-> id, message |-> shape.message, edited_message |-> shape.edited_message] :
        id \in 0..MaxUpdateId, shape \in UpdateShapes}

RECURSIVE SeqsUpTo(_, _)
SeqsUpTo(S, n) ==
    IF n = 0 THEN {<<>>}
    ELSE LET shorter == SeqsUpTo(S, n - 1)
         IN  shorter \cup {Append(s, x) : s \in {t \in shorter : Len(t) = n - 1}, x \in S}

Batches == SeqsUpTo(Updates, MaxBatch)

IdsOf(batch) == {batch[i].update_id : i \in 1..Len(batch)}

\* the texts of the two messages the specification gives as examples:
\* "/cmd@bot extra" and "/abc"
TextCmdAtBot ==
    <<"/", "c", "m", "d", "@", "b", "o", "t", " ", "e", "x", "t", "r", "a">>

TextAbc == <<"/", "a", "b", "c">>

\* message texts of the command-extraction specification
Texts == SeqsUpTo(Chars, MaxTextLen) \cup {TextCmdAtBot, TextAbc}

\* messages with one bot_command entity that lies in the text: offset and
\* length are at most the size of the text
EntityMessages ==
    UNION {{[text |-> <<t>>,
             entities |-> << << [type |-> "bot_command", offset |-> o, length |-> l] >> >>] :
                o \in 0..Len(t), l \in 0..Len(t)} : t \in Texts}

(* ------------------------------ state --------------------------------- *)

VARIABLES
    m_lastUpdateId,   \* TLPollEngine::m_lastUpdateId, the cursor
    m_isDead,         \* TLPollEngine::m_isDead
    m_actionsQueue,   \* TLPollEngine::m_actionsQueue, front first
    callerPc,         \* where the thread that calls start() is
    asDetachedThread, \* the argument of the start() call in progress
    startError,       \* the exception the last start() call raised, or <<>>
    startAttempts,    \* start() calls so far
    pc,               \* per worker thread: where it is in workerProcedure
    offsetSent,       \* per worker: the offset of its getUpdates request of this iteration
    updatesList,      \* per worker: the fetched batch; during onUpdates, the
                      \* updates of it that are still to be processed
    workerError,      \* per worker: the exception that left workerProcedure, or <<>>
    failedIn,         \* per worker: the call that exception came out of, or "none"
    aborted,          \* std::terminate was called
    fetchCount,       \* getUpdates requests issued so far
    pushedCount,      \* history: actions pushed so far; the n-th one carries seq n
    lastExecuted,     \* history: seq of the last action whose request returned
    executedInOrder,  \* history: each executed action had seq lastExecuted + 1
    pushedOutside,    \* history: some action was pushed outside a dispatch
    delivered,        \* history: update_ids handed to the updates callback
    redelivered,      \* history: an update_id was handed over in two cycles
    belowOffset,      \* history: the service returned an update_id below the offset
    lastHttp,         \* history: the outcome of the last failed request
    getMeOutcome,     \* history: the outcome of the last getMe request, or <<"none">>
    lastDispatch,     \* history: while the worker has taken no other step since,
                      \* the update processUpdate was last called with, the
                      \* processor callbacks invoked for it, the kinds of the
                      \* actions these pushed and whether they all returned
    request           \* per thread: the HTTP request it has handed to the
                      \* cURLDriver and that has not returned, or the one
                      \* that failed

vars ==
    <<m_lastUpdateId, m_isDead, m_actionsQueue, callerPc, asDetachedThread,
      startError, startAttempts, pc, offsetSent, updatesList,
      workerError, failedIn, aborted, fetchCount, pushedCount, lastExecuted,
      executedInOrder, pushedOutside, delivered, redelivered, belowOffset,
      lastHttp, getMeOutcome, lastDispatch, request>>

engineVars == <<m_lastUpdateId, m_isDead, m_actionsQueue>>

callerVars == <<callerPc, asDetachedThread, startError, startAttempts>>

workerVars == <<pc, offsetSent, updatesList, workerError, failedIn>>

historyVars ==
    <<fetchCount, pushedCount, lastExecuted, executedInOrder, pushedOutside,
      delivered, redelivered, belowOffset, lastHttp, getMeOutcome>>

(* ------------------------- error taxonomy ----------------------------- *)

\* An exception is a tuple: its class, and for UnknownError the code it carries.
\* <<>> stands for "nothing was thrown".
NoException == <<>>

\* mutant: the NotFound branch is missing
processServerFailureWithoutNotFound(errorCode) ==
    IF errorCode = BadAuthorization THEN <<"BadAuthorization">>
    ELSE <<"UnknownError", errorCode>>

\* ErrorHandler::processServerFailureByJsonRepresentation: always throws
processServerFailureByJsonRepresentation(errorCode) ==
    IF errorCode = BadAuthorization THEN <<"BadAuthorization">>
    ELSE IF errorCode = NotFound THEN <<"BotNotFound">>
    ELSE <<"UnknownError", errorCode>>

\* cURLDriver::httpsRequest: what it throws for a request that ended in outcome
httpsRequest(outcome) ==
    IF outcome[1] \in {"timeout", "curl_error"}
    THEN IF outcome[1] = "timeout" THEN <<"DeadWall">> ELSE <<"runtime_error">>
    ELSE NoException

\* cURLDriver::simpleHttpsRequest: the response body is never read
simpleHttpsRequest(outcome) ==
    IF outcome[1] \in {"timeout", "curl_error"}
    THEN IF outcome[1] = "timeout" THEN <<"DeadWall">> ELSE <<"runtime_error">>
    ELSE NoException

\* TLPollEngine::getUpdates: what it throws for a request that ended in outcome
getUpdates(outcome) ==
    LET transport == httpsRequest(outcome)
    IN  IF transport # NoException THEN transport
        ELSE IF outcome[1] = "not_ok"
             THEN processServerFailureByJsonRepresentation(outcome[2])
             ELSE NoException

\* mutant: the envelope's "ok" is not looked at
checkTokenIgnoresEnvelope(outcome) == httpsRequest(outcome)

\* TLPollEngine::checkToken: what it throws for a request that ended in outcome
checkToken(outcome) ==
    LET transport == httpsRequest(outcome)
    IN  IF transport # NoException THEN transport
        ELSE IF outcome[1] = "not_ok"
             THEN processServerFailureByJsonRepresentation(outcome[2])
             ELSE NoException

\* TLOutcomingAction::onAction of the four kinds: TLSendVideo goes through
\* performHttpRequestWithAttachedFile (httpsRequest), the others through
\* performHttpRequestWithoutResponse (simpleHttpsRequest); none looks at "ok"
onAction(kind, outcome) ==
    IF kind = "TLSendVideo" THEN httpsRequest(outcome) ELSE simpleHttpsRequest(outcome)

(* ----------------------------- requests ------------------------------- *)

\* std::to_string of an unsigned number: its decimal digits
Digits == <<"0", "1", "2", "3", "4", "5", "6", "7", "8", "9">>

RECURSIVE to_string(_)
to_string(n) ==
    IF n < 10 THEN <<Digits[n + 1]>>
    ELSE to_string(n \div 10) \o <<Digits[(n % 10) + 1]>>

\* A request is the TLAPI method at the end of the URL, the Parameters map
\* (key to value) and the cURLDriver call it is made with.

\* the request of checkToken
getMeRequest ==
    [method |-> "getMe", parameters |-> <<>>,
     call |-> "performHttpRequestWithResultAsJson"]

\* mutant: the offset is left out, so the service starts from its oldest update
getUpdatesRequestWithoutOffset(lastUpdateId) ==
    [method |-> "getUpdates",
     parameters |-> [offset |-> to_string(0),
                     limit |-> to_string(UpdatesLimit),
                     timeout |-> to_string(AwaitTimeout)],
     call |-> "performHttpRequestWithResultAsJson"]

\* the request of getUpdates
getUpdatesRequest(lastUpdateId) ==
    [method |-> "getUpdates",
     parameters |-> [offset |-> to_string(lastUpdateId),
                     limit |-> to_string(UpdatesLimit),
                     timeout |-> to_string(AwaitTimeout)],
     call |-> "performHttpRequestWithResultAsJson"]

\* mutant: every action is sent as a plain sendMessage
onActionRequestAsMessage(action) ==
    [method |-> "sendMessage",
     parameters |-> [chat_id |-> to_string(action.m_chat.id), text |-> <<>>],
     call |-> "performHttpRequestWithoutResponse"]

\* the request TLOutcomingAction::onAction of each class makes; TLSendVideo
\* also names the local file that performHttpRequestWithAttachedFile attaches
\* as the form part "video"
onActionRequest(action) ==
    CASE action.kind = "TLSendMessage" ->
            [method |-> "sendMessage",
             parameters |-> [chat_id |-> to_string(action.m_chat.id),
                             text |-> action.m_text],
             call |-> "performHttpRequestWithoutResponse"]
      [] action.kind = "TLReplyMessage" ->
            [method |-> "sendMessage",
             parameters |-> [chat_id |-> to_string(action.m_chat.id),
                             text |-> action.m_replyText,
                             reply_to_message_id |->
                                 to_string(action.m_messageToReply.message_id)],
             call |-> "performHttpRequestWithoutResponse"]
      [] action.kind = "TLSetChatTitle" ->
            [method |-> "setChatTitle",
             parameters |-> [chat_id |-> to_string(action.m_chat.id),
                             title |-> action.m_title],
             call |-> "performHttpRequestWithoutResponse"]
      [] action.kind = "TLSendVideo" ->
            [method |-> "sendVideo",
             parameters |-> [chat_id |-> to_string(action.m_chat.id)],
             call |-> "performHttpRequestWithAttachedFile",
             localFilePath |-> action.m_filePath]

(* --------------------------- action queue ----------------------------- *)

\* mutant: the action is put at the front
pushActionFront(queue, action) == <<action>> \o queue

\* TLPollEngine::pushAction
pushAction(queue, action) == Append(queue, action)

\* Server::sendMessage
sendMessage(queue, chat, message, seq) ==
    pushAction(queue, [kind |-> "TLSendMessage", seq |-> seq,
                       m_chat |-> chat, m_text |-> message])

\* Server::replyMessage
replyMessage(queue, chat, messageToReply, replyText, seq) ==
    pushAction(queue, [kind |-> "TLReplyMessage", seq |-> seq, m_chat |-> chat,
                       m_messageToReply |-> messageToReply, m_replyText |-> replyText])

\* Server::setChatTitle
setChatTitle(queue, chat, title, seq) ==
    pushAction(queue, [kind |-> "TLSetChatTitle", seq |-> seq,
                       m_chat |-> chat, m_title |-> title])

\* Server::sendVideo
sendVideo(queue, chat, pathToVideoFile, seq) ==
    pushAction(queue, [kind |-> "TLSendVideo", seq |-> seq,
                       m_chat |-> chat, m_filePath |-> pathToVideoFile])

\* the arguments of the Server operations called by a processor whose code is
\* not part of the model
AnyChat == [id |-> 1]

AnyText == <<"t">>

AnyMessage ==
    [message_id |-> 5, from |-> nullopt, chat |-> AnyChat,
     text |-> <<AnyText>>, entities |-> nullopt]

\* mutant: the request is made at once and nothing is queued
ServerCallSendsNow(queue, kind, seq) == queue

\* Server::sendMessage / replyMessage / setChatTitle / sendVideo: make the
\* action of that kind (seq tells the objects apart) and push it
ServerCall(queue, kind, seq) ==
    CASE kind = "TLSendMessage" -> sendMessage(queue, AnyChat, AnyText, seq)
      [] kind = "TLReplyMessage" -> replyMessage(queue, AnyChat, AnyMessage, AnyText, seq)
      [] kind = "TLSetChatTitle" -> setChatTitle(queue, AnyChat, AnyText, seq)
      [] kind = "TLSendVideo" -> sendVideo(queue, AnyChat, AnyText, seq)

RECURSIVE ServerCalls(_, _, _)
ServerCalls(queue, kinds, seq) ==
    IF kinds = <<>> THEN queue
    ELSE ServerCalls(ServerCall(queue, Head(kinds), seq), Tail(kinds), seq + 1)

\* the front()/pop() pair of the drain loop
front(queue) == Head(queue)

pop(queue) == Tail(queue)

(* ----------------------------- cursor --------------------------------- *)

\* TLId is uint64_t, whose largest value 2^64 - 1 is beyond the integers TLC
\* computes with. The model's TLId is narrower: its largest value lies just
\* above every cursor value that batches with update_ids up to MaxUpdateId
\* can produce in MaxFetches cycles, and only the batches of WrapSpec carry it.
TLIdMax == MaxUpdateId + MaxFetches + 1

\* topId + 1 in TLId arithmetic: unsigned, so one past the largest value is 0
TLIdPlusOne(topId) == (topId + 1) % (TLIdMax + 1)

\* mutant: topId starts at 0, not at the cursor
TopIdOfBatchOnly(topId, list) ==
    LET ids == {list[i].update_id : i \in 1..Len(list)} \cup {0}
    IN  CHOOSE x \in ids : \A y \in ids : y <= x

\* mutant: only the last update of the batch is compared with topId
TopIdOfLast(topId, list) ==
    IF list # <<>> /\ list[Len(list)].update_id > topId
    THEN list[Len(list)].update_id
    ELSE topId

\* workerProcedure's loop over the batch: the largest of topId and the update_ids
RECURSIVE TopId(_, _)
TopId(topId, list) ==
    IF list = <<>> THEN topId
    ELSE TopId(IF Head(list).update_id > topId THEN Head(list).update_id ELSE topId,
               Tail(list))

\* mutant: the cursor is written only after the callback has run
setTopUpdateIdLate(topId) == m_lastUpdateId

\* mutant: the cursor is set to the top update_id itself, not one past it
setTopUpdateIdNoIncrement(topId) == topId - 1

\* TLPollEngine::setTopUpdateId: the value m_lastUpdateId gets
setTopUpdateId(topId) == topId

\* TLPollEngine::isReadyToDestroy: the value it returns
isReadyToDestroy == m_isDead

(* ---------------------------- dispatcher ------------------------------ *)

\* mutant: length is taken as the number of characters of the entity
CommandOfLength(text, charId, length) ==
    LET last == IF charId + length < Len(text) THEN charId + length ELSE Len(text)
        ats == {i \in (charId + 1)..last : text[i] = "@"}
        stop == IF ats = {} THEN last
                ELSE (CHOOSE i \in ats : \A j \in ats : i <= j) - 1
    IN  SubSeq(text, charId + 1, stop)

\* the inner loop of processUpdate: the characters pushed to command from
\* index charId on, up to index length (not included) or the first '@'.
\* The text carries every index below length (the entity lies in the text).
RECURSIVE CommandFrom(_, _, _)
CommandFrom(text, charId, length) ==
    IF charId >= length THEN <<>>
    ELSE IF text[charId + 1] = "@" THEN <<>>
    ELSE <<text[charId + 1]>> \o CommandFrom(text, charId + 1, length)

\* the BotCommand processUpdate makes of a bot_command entity
BotCommand(message, entity) ==
    [command |-> CommandFrom(message.text[1], entity.offset, entity.length),
     offset |-> entity.offset,
     length |-> entity.length]

\* mutant: the type of the entity is not looked at
RECURSIVE CommandsOfAnyType(_, _)
CommandsOfAnyType(message, entities) ==
    IF entities = <<>> THEN <<>>
    ELSE <<BotCommand(message, Head(entities))>> \o CommandsOfAnyType(message, Tail(entities))

\* mutant: a bot_command entity whose offset is not below its length is
\* passed over
RECURSIVE CommandsOfInRange(_, _)
CommandsOfInRange(message, entities) ==
    IF entities = <<>> THEN <<>>
    ELSE IF Head(entities).type = "bot_command" /\ Head(entities).offset < Head(entities).length
         THEN <<BotCommand(message, Head(entities))>> \o CommandsOfInRange(message, Tail(entities))
         ELSE CommandsOfInRange(message, Tail(entities))

\* the BotCommand list processUpdate builds: one per bot_command entity
RECURSIVE CommandsOf(_, _)
CommandsOf(message, entities) ==
    IF entities = <<>> THEN <<>>
    ELSE IF Head(entities).type = "bot_command"
         THEN <<BotCommand(message, Head(entities))>> \o CommandsOf(message, Tail(entities))
         ELSE CommandsOf(message, Tail(entities))

Commands(message) ==
    IF has_value(message.entities)
    THEN CommandsOf(message, message.entities[1])
    ELSE <<>>

\* a call of a processor callback: its name, the message and (onBotCommands)
\* the command list it is given
Call(callback, message, commands) ==
    [callback |-> callback, message |-> message, commands |-> commands]

\* mutant: onBotCommands is called whenever the message has entities
processUpdateByEntities(update) ==
    LET forMessage ==
            IF has_value(update.message)
            THEN IF has_value(update.message[1].entities)
                 THEN <<Call("onBotCommands", update.message[1],
                             Commands(update.message[1]))>>
                 ELSE <<Call("onMessage", update.message[1], <<>>)>>
            ELSE <<>>
        forEdited ==
            IF has_value(update.edited_message)
            THEN <<Call("onMessageEdited", update.edited_message[1], <<>>)>>
            ELSE <<>>
    IN  IF forMessage # <<>> /\ forMessage[1].callback = "onBotCommands"
        THEN forMessage
        ELSE forMessage \o forEdited

\* mutant: there is no return after onBotCommands
processUpdateWithoutReturn(update) ==
    LET forCommands ==
            IF has_value(update.message) /\ Commands(update.message[1]) # <<>>
            THEN <<Call("onBotCommands", update.message[1],
                        Commands(update.message[1]))>>
            ELSE <<>>
        forMessage ==
            IF has_value(update.message)
            THEN <<Call("onMessage", update.message[1], <<>>)>>
            ELSE <<>>
        forEdited ==
            IF has_value(update.edited_message)
            THEN <<Call("onMessageEdited", update.edited_message[1], <<>>)>>
            ELSE <<>>
    IN  forCommands \o forMessage \o forEdited

\* mutant: onMessageEdited is called without the has_value test
processUpdateEditedUntested(update) ==
    LET forMessage ==
            IF has_value(update.message)
            THEN IF Commands(update.message[1]) # <<>>
                 THEN <<Call("onBotCommands", update.message[1],
                             Commands(update.message[1]))>>
                 ELSE <<Call("onMessage", update.message[1], <<>>)>>
            ELSE <<>>
        forEdited == <<Call("onMessageEdited", update.edited_message, <<>>)>>
    IN  IF forMessage # <<>> /\ forMessage[1].callback = "onBotCommands"
        THEN forMessage
        ELSE forMessage \o forEdited

\* Server::processUpdate: the processor callbacks it invokes, in order
processUpdate(update) ==
    LET commands ==
            IF has_value(update.message) THEN Commands(update.message[1]) ELSE <<>>
        forEdited ==
            IF has_value(update.edited_message)
            THEN <<Call("onMessageEdited", update.edited_message[1], <<>>)>>
            ELSE <<>>
    IN  IF has_value(update.message)
        THEN IF commands # <<>>
             THEN <<Call("onBotCommands", update.message[1], commands)>>   \* return
             ELSE <<Call("onMessage", update.message[1], <<>>)>> \o forEdited
        ELSE forEdited

\* mutant: the batch is walked from its end
nextUpdateFromEnd(updates) == updates[Len(updates)]

\* Server::onUpdates: the update its loop handles next, the first of those
\* still to be handled
nextUpdate(updates) == Head(updates)

(* ------------------------------- Init --------------------------------- *)

\* the state after Server / TLPollEngine construction
Init ==
    /\ m_lastUpdateId = 0
    /\ m_isDead = FALSE
    /\ m_actionsQueue = <<>>
    /\ callerPc = "idle"
    /\ asDetachedThread = TRUE
    /\ startError = NoException
    /\ startAttempts = 0
    /\ pc = [w \in Workers |-> "none"]
    /\ offsetSent = [w \in Workers |-> 0]
    /\ updatesList = [w \in Workers |-> <<>>]
    /\ workerError = [w \in Workers |-> NoException]
    /\ failedIn = [w \in Workers |-> "none"]
    /\ aborted = FALSE
    /\ fetchCount = 0
    /\ pushedCount = 0
    /\ lastExecuted = 0
    /\ executedInOrder = TRUE
    /\ pushedOutside = FALSE
    /\ delivered = {}
    /\ redelivered = FALSE
    /\ belowOffset = FALSE
    /\ lastHttp = <<"ok">>
    /\ getMeOutcome = <<"none">>
    /\ lastDispatch = nullopt
    /\ request = [t \in Threads |-> nullopt]

\* the worker threads spawned so far are 1..SpawnedWorkers
SpawnedWorkers == Cardinality({w \in Workers : pc[w] # "none"})

(* ------------------------ the caller's thread ------------------------- *)

\* mutant: start() leaves the stop flag as it finds it
StartCallKeepsFlag(detached) ==
    /\ ~aborted
    /\ callerPc \in {"idle", "failed"}
    /\ startAttempts < MaxStartAttempts
    /\ SpawnedWorkers < MaxWorkers
    /\ startAttempts' = startAttempts + 1
    /\ asDetachedThread' = detached
    /\ m_isDead' = m_isDead
    /\ startError' = NoException
    /\ callerPc' = "checkToken"
    /\ request' = [request EXCEPT ![CallerThread] = <<getMeRequest>>]
    /\ UNCHANGED <<m_lastUpdateId, m_actionsQueue, workerVars, aborted, historyVars,
                   lastDispatch>>

\* TLPollEngine::start up to the getMe request of checkToken
StartCall(detached) ==
    /\ ~aborted
    /\ callerPc \in {"idle", "failed"}
    /\ startAttempts < MaxStartAttempts
    /\ SpawnedWorkers < MaxWorkers
    /\ startAttempts' = startAttempts + 1
    /\ asDetachedThread' = detached
    /\ m_isDead' = FALSE
    /\ startError' = NoException
    /\ callerPc' = "checkToken"
    /\ request' = [request EXCEPT ![CallerThread] = <<getMeRequest>>]
    /\ UNCHANGED <<m_lastUpdateId, m_actionsQueue, workerVars, aborted, historyVars,
                   lastDispatch>>

\* mutant: start() runs a thread per worker slot instead of one thread
CheckTokenReturnSpawnsAll ==
    /\ ~aborted
    /\ callerPc = "checkToken"
    /\ \E outcome \in HttpOutcomes :
        /\ getMeOutcome' = outcome
        /\ IF checkToken(outcome) # NoException
           THEN /\ startError' = checkToken(outcome)
                /\ lastHttp' = outcome
                /\ callerPc' = "failed"
                /\ pc' = pc
                /\ request' = request
           ELSE /\ pc' = [w \in Workers |-> "loop"]
                /\ callerPc' = IF asDetachedThread THEN "returned" ELSE "join"
                /\ request' = [request EXCEPT ![CallerThread] = nullopt]
                /\ UNCHANGED <<startError, lastHttp>>
    /\ UNCHANGED <<engineVars, asDetachedThread, startAttempts, offsetSent,
                   updatesList, workerError, failedIn, aborted, fetchCount,
                   pushedCount, lastExecuted, executedInOrder, pushedOutside,
                   delivered, redelivered, belowOffset,
                   lastDispatch>>

\* TLPollEngine::start from the answer to getMe on: checkToken either throws
\* out of start(), or the worker thread is made and detached or joined
CheckTokenReturn ==
    /\ ~aborted
    /\ callerPc = "checkToken"
    /\ \E outcome \in HttpOutcomes :
        /\ getMeOutcome' = outcome
        /\ IF checkToken(outcome) # NoException
           THEN /\ startError' = checkToken(outcome)
                /\ lastHttp' = outcome
                /\ callerPc' = "failed"
                /\ pc' = pc
                /\ request' = request
           ELSE /\ pc' = [pc EXCEPT ![SpawnedWorkers + 1] = "loop"]
                /\ callerPc' = IF asDetachedThread THEN "returned" ELSE "join"
                /\ request' = [request EXCEPT ![CallerThread] = nullopt]
                /\ UNCHANGED <<startError, lastHttp>>
    /\ UNCHANGED <<engineVars, asDetachedThread, startAttempts, offsetSent,
                   updatesList, workerError, failedIn, aborted, fetchCount,
                   pushedCount, lastExecuted, executedInOrder, pushedOutside,
                   delivered, redelivered, belowOffset,
                   lastDispatch>>

\* mutant: start() returns in blocking mode as it does in detached mode
JoinReturnWithoutWaiting ==
    /\ ~aborted
    /\ callerPc = "join"
    /\ callerPc' = "returned"
    /\ UNCHANGED <<engineVars, asDetachedThread, startError, startAttempts,
                   workerVars, aborted, historyVars,
                   lastDispatch, request>>

\* workerThread.join() returns once the worker has left workerProcedure
JoinReturn ==
    /\ ~aborted
    /\ callerPc = "join"
    /\ pc[SpawnedWorkers] = "exited"
    /\ callerPc' = "returned"
    /\ UNCHANGED <<engineVars, asDetachedThread, startError, startAttempts,
                   workerVars, aborted, historyVars,
                   lastDispatch, request>>

\* mutant: stop() ends the worker thread wherever it is
StopInterrupts ==
    /\ ~aborted
    /\ m_isDead' = TRUE
    /\ pc' = [w \in Workers |-> IF pc[w] \in {"none", "terminated"} THEN pc[w] ELSE "exited"]
    /\ UNCHANGED <<m_lastUpdateId, m_actionsQueue, callerVars, offsetSent,
                   updatesList, workerError, failedIn, aborted, historyVars,
                   lastDispatch, request>>

\* TLPollEngine::stop
Stop ==
    /\ ~aborted
    /\ m_isDead' = TRUE
    /\ UNCHANGED <<m_lastUpdateId, m_actionsQueue, callerVars, workerVars,
                   aborted, historyVars,
                   lastDispatch, request>>

\* Server::sendMessage / replyMessage / setChatTitle / sendVideo called by the
\* application before any worker thread exists
PushBeforeStart(kind) ==
    /\ ~aborted
    /\ callerPc \in {"idle", "failed"}
    /\ SpawnedWorkers = 0
    /\ pushedCount < MaxPushBeforeStart
    /\ pushedCount < MaxActions
    /\ m_actionsQueue' = ServerCall(m_actionsQueue, kind, pushedCount + 1)
    /\ pushedCount' = pushedCount + 1
    /\ pushedOutside' = TRUE
    /\ UNCHANGED <<m_lastUpdateId, m_isDead, callerVars, workerVars, aborted,
                   fetchCount, lastExecuted, executedInOrder, delivered,
                   redelivered, belowOffset, lastHttp, getMeOutcome,
                   lastDispatch, request>>

(* ------------------------- the worker thread -------------------------- *)

\* an exception leaves workerProcedure: std::terminate
Terminate(w, exception, outcome) ==
    /\ pc' = [pc EXCEPT ![w] = "terminated"]
    /\ workerError' = [workerError EXCEPT ![w] = exception]
    /\ failedIn' = [failedIn EXCEPT ![w] = pc[w]]
    /\ lastHttp' = outcome
    /\ aborted' = TRUE

\* mutant: the loop does not test the flag
LoopCheckWithoutTest(w) ==
    /\ ~aborted
    /\ pc[w] = "loop"
    /\ fetchCount < MaxFetches
    /\ pc' = [pc EXCEPT ![w] = "getUpdates"]
    /\ offsetSent' = [offsetSent EXCEPT ![w] = m_lastUpdateId]
    /\ request' = [request EXCEPT ![w] = <<getUpdatesRequest(m_lastUpdateId)>>]
    /\ fetchCount' = fetchCount + 1
    /\ UNCHANGED <<engineVars, callerVars, updatesList, workerError, failedIn,
                   aborted, pushedCount, lastExecuted, executedInOrder,
                   pushedOutside, delivered, redelivered, belowOffset, lastHttp,
                   getMeOutcome,
                   lastDispatch>>

\* while (!m_isDead), and the getUpdates request going out with the cursor
LoopCheck(w) ==
    /\ ~aborted
    /\ pc[w] = "loop"
    /\ IF m_isDead
       THEN /\ pc' = [pc EXCEPT ![w] = "exited"]
            /\ UNCHANGED <<offsetSent, fetchCount, request>>
       ELSE /\ fetchCount < MaxFetches
            /\ pc' = [pc EXCEPT ![w] = "getUpdates"]
            /\ offsetSent' = [offsetSent EXCEPT ![w] = m_lastUpdateId]
            /\ request' = [request EXCEPT ![w] = <<getUpdatesRequest(m_lastUpdateId)>>]
            /\ fetchCount' = fetchCount + 1
    /\ UNCHANGED <<engineVars, callerVars, updatesList, workerError, failedIn,
                   aborted, pushedCount, lastExecuted, executedInOrder,
                   pushedOutside, delivered, redelivered, belowOffset, lastHttp,
                   getMeOutcome,
                   lastDispatch>>

\* mutant: an empty batch is handled like any other
FetchOkWithoutSkip(w) ==
    /\ ~aborted
    /\ pc[w] = "getUpdates"
    /\ getUpdates(<<"ok">>) = NoException
    /\ request' = [request EXCEPT ![w] = nullopt]
    /\ \E batch \in Batches :
        /\ updatesList' = [updatesList EXCEPT ![w] = batch]
        /\ belowOffset' = (belowOffset \/ \E id \in IdsOf(batch) : id < offsetSent[w])
        /\ pc' = [pc EXCEPT ![w] = "fetched"]
        /\ offsetSent' = offsetSent
    /\ UNCHANGED <<engineVars, callerVars, workerError, failedIn,
                   aborted, fetchCount, pushedCount, lastExecuted,
                   executedInOrder, pushedOutside, delivered, redelivered, lastHttp,
                   getMeOutcome,
                   lastDispatch>>

\* mutant: after an empty batch the worker still drains the queue
FetchOkDrainsOnEmpty(w) ==
    /\ ~aborted
    /\ pc[w] = "getUpdates"
    /\ getUpdates(<<"ok">>) = NoException
    /\ request' = [request EXCEPT ![w] = nullopt]
    /\ \E batch \in Batches :
        /\ updatesList' = [updatesList EXCEPT ![w] = batch]
        /\ belowOffset' = (belowOffset \/ \E id \in IdsOf(batch) : id < offsetSent[w])
        /\ pc' = [pc EXCEPT ![w] = IF batch = <<>> THEN "drain" ELSE "fetched"]
        /\ offsetSent' = [offsetSent EXCEPT ![w] = IF batch = <<>> THEN 0 ELSE @]
    /\ UNCHANGED <<engineVars, callerVars, workerError, failedIn,
                   aborted, fetchCount, pushedCount, lastExecuted,
                   executedInOrder, pushedOutside, delivered, redelivered, lastHttp,
                   getMeOutcome,
                   lastDispatch>>

\* getUpdates returns a batch; an empty one sends the loop round again
FetchOk(w) ==
    /\ ~aborted
    /\ pc[w] = "getUpdates"
    /\ getUpdates(<<"ok">>) = NoException
    /\ request' = [request EXCEPT ![w] = nullopt]
    /\ \E batch \in Batches :
        /\ updatesList' = [updatesList EXCEPT ![w] = batch]
        /\ belowOffset' = (belowOffset \/ \E id \in IdsOf(batch) : id < offsetSent[w])
        /\ pc' = [pc EXCEPT ![w] = IF batch = <<>> THEN "loop" ELSE "fetched"]
        /\ offsetSent' = [offsetSent EXCEPT ![w] = IF batch = <<>> THEN 0 ELSE @]
    /\ UNCHANGED <<engineVars, callerVars, workerError, failedIn,
                   aborted, fetchCount, pushedCount, lastExecuted,
                   executedInOrder, pushedOutside, delivered, redelivered, lastHttp,
                   getMeOutcome,
                   lastDispatch>>

\* mutant: the cursor is moved on before the answer is checked
FetchFailAcks(w) ==
    /\ ~aborted
    /\ pc[w] = "getUpdates"
    /\ \E outcome \in HttpOutcomes :
        /\ getUpdates(outcome) # NoException
        /\ Terminate(w, getUpdates(outcome), outcome)
    /\ m_lastUpdateId' = m_lastUpdateId + 1
    /\ UNCHANGED <<m_isDead, m_actionsQueue, callerVars, offsetSent, updatesList,
                   fetchCount, pushedCount, lastExecuted, executedInOrder,
                   pushedOutside, delivered, redelivered, belowOffset, getMeOutcome,
                   lastDispatch, request>>

\* getUpdates throws: transport failure, or a non-ok envelope
FetchFail(w) ==
    /\ ~aborted
    /\ pc[w] = "getUpdates"
    /\ \E outcome \in HttpOutcomes :
        /\ getUpdates(outcome) # NoException
        /\ Terminate(w, getUpdates(outcome), outcome)
    /\ UNCHANGED <<engineVars, callerVars, offsetSent, updatesList,
                   fetchCount, pushedCount, lastExecuted, executedInOrder,
                   pushedOutside, delivered, redelivered, belowOffset, getMeOutcome,
                   lastDispatch, request>>

\* the cursor moves past the batch, then m_updatesCallback is called with it
Advance(w) ==
    /\ ~aborted
    /\ pc[w] = "fetched"
    /\ m_lastUpdateId' = setTopUpdateId(TLIdPlusOne(TopId(m_lastUpdateId, updatesList[w])))
    /\ pc' = [pc EXCEPT ![w] = "onUpdates"]
    /\ redelivered' = (redelivered \/ IdsOf(updatesList[w]) \cap delivered # {})
    /\ delivered' = delivered \cup IdsOf(updatesList[w])
    /\ UNCHANGED <<m_isDead, m_actionsQueue, callerVars, offsetSent, updatesList,
                   workerError, failedIn, aborted, fetchCount, pushedCount,
                   lastExecuted, executedInOrder, pushedOutside, belowOffset,
                   lastHttp, getMeOutcome,
                   lastDispatch, request>>

\* Server::onUpdates handles the next update of the batch: processUpdate calls
\* the processor, whose callbacks push actions (kinds) and may throw (the
\* callback that throws is the last one invoked).  After
\* the last update the callback returns; the batch and the request's offset
\* are not read again in this iteration, and the model drops them here.
DispatchStep(w) ==
    /\ ~aborted
    /\ pc[w] = "onUpdates"
    /\ \E update \in {nextUpdate(updatesList[w])} :
       \E calls \in {processUpdate(update)} :
       \E kinds \in SeqsUpTo(ActionKinds, MaxPushPerUpdate), throws \in BOOLEAN,
          invoked \in 0..Len(calls) :
            /\ calls = <<>> => kinds = <<>> /\ ~throws
            /\ throws => kinds = <<>> /\ invoked >= 1
            /\ ~throws => invoked = Len(calls)
            /\ pushedCount + Len(kinds) <= MaxActions
            /\ m_actionsQueue' = ServerCalls(m_actionsQueue, kinds, pushedCount + 1)
            /\ pushedCount' = pushedCount + Len(kinds)
            /\ lastDispatch' = << [update |-> update,
                                    calls |-> SubSeq(calls, 1, invoked),
                                    pushes |-> kinds,
                                    returned |-> ~throws] >>
            /\ IF throws
               THEN /\ Terminate(w, <<"callback_exception">>, lastHttp)
                    /\ UNCHANGED <<updatesList, offsetSent>>
               ELSE /\ updatesList' = [updatesList EXCEPT ![w] = Tail(@)]
                    /\ pc' = [pc EXCEPT ![w] =
                                IF Tail(updatesList[w]) = <<>> THEN "drain" ELSE "onUpdates"]
                    /\ offsetSent' = [offsetSent EXCEPT ![w] =
                                IF Tail(updatesList[w]) = <<>> THEN 0 ELSE @]
                    /\ UNCHANGED <<workerError, failedIn, aborted, lastHttp>>
    /\ UNCHANGED <<m_lastUpdateId, m_isDead, callerVars, fetchCount, lastExecuted,
                   executedInOrder, pushedOutside, delivered, redelivered,
                   belowOffset, getMeOutcome, request>>

\* mutant: the drain is skipped
DrainCheckSkips(w) ==
    /\ ~aborted
    /\ pc[w] = "drain"
    /\ pc' = [pc EXCEPT ![w] = "loop"]
    /\ lastDispatch' = nullopt
    /\ request' = request
    /\ UNCHANGED <<engineVars, callerVars, offsetSent, updatesList, workerError,
                   failedIn, aborted, historyVars>>

\* mutant: the drain loop also ends when the stop flag is set
DrainCheckTestsFlag(w) ==
    /\ ~aborted
    /\ pc[w] = "drain"
    /\ pc' = [pc EXCEPT ![w] = IF m_actionsQueue = <<>> \/ m_isDead THEN "loop" ELSE "onAction"]
    /\ lastDispatch' = nullopt
    /\ request' = IF m_actionsQueue = <<>> \/ m_isDead THEN request
                  ELSE [request EXCEPT ![w] = <<onActionRequest(front(m_actionsQueue))>>]
    /\ UNCHANGED <<engineVars, callerVars, offsetSent, updatesList, workerError,
                   failedIn, aborted, historyVars>>

\* the emptiness test of the drain loop: the iteration ends, or front() is
\* taken and its request goes out
DrainCheck(w) ==
    /\ ~aborted
    /\ pc[w] = "drain"
    /\ pc' = [pc EXCEPT ![w] = IF m_actionsQueue = <<>> THEN "loop" ELSE "onAction"]
    /\ lastDispatch' = nullopt
    /\ request' = IF m_actionsQueue = <<>> THEN request
                  ELSE [request EXCEPT ![w] = <<onActionRequest(front(m_actionsQueue))>>]
    /\ UNCHANGED <<engineVars, callerVars, offsetSent, updatesList, workerError,
                   failedIn, aborted, historyVars>>

\* mutant: the action is popped whether or not onAction returned
ActionReturnPopsAlways(w) ==
    /\ ~aborted
    /\ pc[w] = "onAction"
    /\ m_actionsQueue' = pop(m_actionsQueue)
    /\ \E outcome \in HttpOutcomes :
        IF onAction(front(m_actionsQueue).kind, outcome) = NoException
        THEN /\ lastExecuted' = front(m_actionsQueue).seq
             /\ executedInOrder' =
                     (executedInOrder /\ front(m_actionsQueue).seq = lastExecuted + 1)
             /\ pc' = [pc EXCEPT ![w] = "drain"]
             /\ request' = [request EXCEPT ![w] = nullopt]
             /\ UNCHANGED <<workerError, failedIn, aborted, lastHttp>>
        ELSE /\ Terminate(w, onAction(front(m_actionsQueue).kind, outcome), outcome)
             /\ UNCHANGED <<lastExecuted, executedInOrder, request>>
    /\ UNCHANGED <<m_lastUpdateId, m_isDead, callerVars, offsetSent, updatesList,
                   fetchCount, pushedCount, pushedOutside, delivered,
                   redelivered, belowOffset, getMeOutcome,
                   lastDispatch>>

\* the request of the action at the front ends: onAction returns and the action
\* is popped, or onAction throws
ActionReturn(w) ==
    /\ ~aborted
    /\ pc[w] = "onAction"
    /\ \E outcome \in HttpOutcomes :
        IF onAction(front(m_actionsQueue).kind, outcome) = NoException
        THEN /\ m_actionsQueue' = pop(m_actionsQueue)
             /\ lastExecuted' = front(m_actionsQueue).seq
             /\ executedInOrder' =
                     (executedInOrder /\ front(m_actionsQueue).seq = lastExecuted + 1)
             /\ pc' = [pc EXCEPT ![w] = "drain"]
             /\ request' = [request EXCEPT ![w] = nullopt]
             /\ UNCHANGED <<workerError, failedIn, aborted, lastHttp>>
        ELSE /\ Terminate(w, onAction(front(m_actionsQueue).kind, outcome), outcome)
             /\ UNCHANGED <<m_actionsQueue, lastExecuted, executedInOrder, request>>
    /\ UNCHANGED <<m_lastUpdateId, m_isDead, callerVars, offsetSent, updatesList,
                   fetchCount, pushedCount, pushedOutside, delivered,
                   redelivered, belowOffset, getMeOutcome,
                   lastDispatch>>

(* --------------------------- specification ---------------------------- *)

Next ==
    \/ \E detached \in BOOLEAN : StartCall(detached)
    \/ CheckTokenReturn
    \/ JoinReturn
    \/ Stop
    \/ \E kind \in ActionKinds : PushBeforeStart(kind)
    \/ \E w \in Workers : LoopCheck(w)
    \/ \E w \in Workers : FetchOk(w)
    \/ \E w \in Workers : FetchFail(w)
    \/ \E w \in Workers : Advance(w)
    \/ \E w \in Workers : DispatchStep(w)
    \/ \E w \in Workers : DrainCheck(w)
    \/ \E w \in Workers : ActionReturn(w)

Spec == Init /\ [][Next]_vars

\* the steps of worker thread w: workerProcedure from the loop test on
WorkerStep(w) ==
    \/ LoopCheck(w)
    \/ FetchOk(w)
    \/ FetchFail(w)
    \/ Advance(w)
    \/ DispatchStep(w)
    \/ DrainCheck(w)
    \/ ActionReturn(w)

\* Spec with a worker thread that is scheduled, requests that end and
\* callbacks that return: a worker that can take a step eventually takes one
FairSpec == Spec /\ \A w \in Workers : WF_vars(WorkerStep(w))

(* ---------------- pushes from a second application thread ------------- *)

\* What an unsynchronised m_actionsQueue.push can do while the worker thread
\* is between the emptiness test, front() and pop() of its drain loop:
\* m_actionsQueue is a std::queue with no mutex, so the two threads race on the
\* deque. The push lands, or its element is lost, or the deque is left broken
\* and the process dies.
RaceOutcomes == {"appended", "lost", "crashed"}

\* Server::sendMessage / replyMessage / setChatTitle / sendVideo called from a
\* thread other than worker w while w is inside its drain loop
PushDuringDrain(w, kind) ==
    /\ ~aborted
    /\ pc[w] \in {"drain", "onAction"}
    /\ pushedCount < MaxActions
    /\ pushedCount' = pushedCount + 1
    /\ pushedOutside' = TRUE
    /\ \E raceOutcome \in RaceOutcomes :
        /\ m_actionsQueue' = IF raceOutcome = "appended"
                             THEN ServerCall(m_actionsQueue, kind, pushedCount + 1)
                             ELSE m_actionsQueue
        /\ IF raceOutcome = "crashed"
           THEN Terminate(w, <<"undefined_behaviour">>, lastHttp)
           ELSE UNCHANGED <<pc, workerError, failedIn, lastHttp, aborted>>
    /\ UNCHANGED <<m_lastUpdateId, m_isDead, callerVars, offsetSent, updatesList,
                   fetchCount, lastExecuted, executedInOrder, delivered,
                   redelivered, belowOffset, getMeOutcome,
                   lastDispatch, request>>

NextRace ==
    \/ Next
    \/ \E w \in Workers, kind \in ActionKinds : PushDuringDrain(w, kind)

\* Spec with an application thread that also pushes while the worker drains
RaceSpec == Init /\ [][NextRace]_vars

(* --------------------------- restart protocol -------------------------- *)

\* TLPollEngine::start called again by a caller that started the engine
\* detached, called stop() and has seen isReadyToDestroy() return true
StartAgain ==
    /\ ~aborted
    /\ callerPc = "returned"
    /\ asDetachedThread
    /\ isReadyToDestroy
    /\ startAttempts < MaxStartAttempts + MaxRestarts
    /\ SpawnedWorkers < MaxWorkers
    /\ startAttempts' = startAttempts + 1
    /\ m_isDead' = FALSE
    /\ startError' = NoException
    /\ callerPc' = "checkToken"
    /\ request' = [request EXCEPT ![CallerThread] = <<getMeRequest>>]
    /\ UNCHANGED <<m_lastUpdateId, m_actionsQueue, asDetachedThread, workerVars,
                   aborted, historyVars, lastDispatch>>

\* the steps up to the return of getUpdates: a worker that holds a fetched
\* batch goes no further here, since two workers that advance the cursor and
\* push and pop on the queue at once race on plain members
NextRestart ==
    \/ \E detached \in BOOLEAN : StartCall(detached)
    \/ CheckTokenReturn
    \/ JoinReturn
    \/ Stop
    \/ StartAgain
    \/ \E w \in Workers : LoopCheck(w)
    \/ \E w \in Workers : FetchOk(w)
    \/ \E w \in Workers : FetchFail(w)

RestartSpec == Init /\ [][NextRestart]_vars

(* ------------------- batches with the largest TLId -------------------- *)

\* an update whose update_id is the largest TLId
UpdatesTop == {[update_id |-> TLIdMax, message |-> <<MsgPlain>>, edited_message |-> nullopt]}

BatchesTop == {<<update>> : update \in UpdatesTop}

\* getUpdates returns a batch that holds the largest update_id
FetchTop(w) ==
    /\ ~aborted
    /\ pc[w] = "getUpdates"
    /\ getUpdates(<<"ok">>) = NoException
    /\ request' = [request EXCEPT ![w] = nullopt]
    /\ \E batch \in BatchesTop :
        /\ updatesList' = [updatesList EXCEPT ![w] = batch]
        /\ belowOffset' = (belowOffset \/ \E id \in IdsOf(batch) : id < offsetSent[w])
        /\ pc' = [pc EXCEPT ![w] = "fetched"]
    /\ UNCHANGED <<engineVars, callerVars, offsetSent, workerError, failedIn,
                   aborted, fetchCount, pushedCount, lastExecuted,
                   executedInOrder, pushedOutside, delivered, redelivered, lastHttp,
                   getMeOutcome,
                   lastDispatch>>

NextWrap ==
    \/ Next
    \/ \E w \in Workers : FetchTop(w)

\* Spec with a service that also sends update_id = max(TLId)
WrapSpec == Init /\ [][NextWrap]_vars

(* ------------------- command-extraction specification ---------------- *)

\* The engine right after the first cycle's cursor advance, about to dispatch
\* a batch of one update whose message carries one bot_command entity; text,
\* offset and length range over EntityMessages.
InitExtract ==
    /\ m_lastUpdateId = 1
    /\ m_isDead = FALSE
    /\ m_actionsQueue = <<>>
    /\ callerPc = "returned"
    /\ asDetachedThread = TRUE
    /\ startError = NoException
    /\ startAttempts = 1
    /\ pc = [w \in Workers |-> IF w = 1 THEN "onUpdates" ELSE "none"]
    /\ offsetSent = [w \in Workers |-> 0]
    /\ \E message \in EntityMessages :
          updatesList =
              [w \in Workers |->
                  IF w = 1
                  THEN << [update_id |-> 0, message |-> <<message>>,
                           edited_message |-> nullopt] >>
                  ELSE <<>>]
    /\ workerError = [w \in Workers |-> NoException]
    /\ failedIn = [w \in Workers |-> "none"]
    /\ aborted = FALSE
    /\ fetchCount = 1
    /\ pushedCount = 0
    /\ lastExecuted = 0
    /\ executedInOrder = TRUE
    /\ pushedOutside = FALSE
    /\ delivered = {0}
    /\ redelivered = FALSE
    /\ belowOffset = FALSE
    /\ lastHttp = <<"ok">>
    /\ getMeOutcome = <<"ok">>
    /\ lastDispatch = nullopt
    /\ request = [t \in Threads |-> nullopt]

NextExtract == \E w \in Workers : DispatchStep(w)

SpecExtract == InitExtract /\ [][NextExtract]_vars

(* ---------------------- ChatBotMessageProcessor ----------------------- *)

\* the command strings of the routes, and texts that are no route's key
CmdStatus == <<"/", "s", "t", "a", "t", "u", "s">>

CmdAuth == <<"/", "a", "u", "t", "h">>

CmdGetVideo == <<"/", "g", "e", "t", "_", "v", "i", "d", "e", "o">>

CmdStart == <<"/", "s", "t", "a", "r", "t">>

CmdStatusAtBot == <<"/", "s", "t", "a", "t", "u", "s", "@", "b">>

\* mutant: the /auth route is missing
RoutesWithoutAuth ==
    (CmdStatus :> "onStatusRequest") @@ (CmdGetVideo :> "onVideoRequest")

\* ChatBotMessageProcessor::m_commandRoutes as the constructor fills it
m_commandRoutes ==
    (CmdStatus :> "onStatusRequest") @@ (CmdAuth :> "onAuthorizationRequest")
        @@ (CmdGetVideo :> "onVideoRequest")

\* fmt::format("Unknown command \"{}\".", command): the two literal parts
\* around the characters of the command
UnknownCommandText(command) == <<"Unknown command \"">> \o command \o <<"\".">>

\* the literal onMessageEdited replies with
EditedReplyText == <<"reply of onMessageEdited">>

\* what one callback or handler of the processor did: the handler that ran, the
\* command it ran for (if any) and the Server operations it called, in order
Invocation(handler, command, serverCalls) ==
    [handler |-> handler, command |-> command, serverCalls |-> serverCalls]

\* mutant: the reply goes out for the command but is addressed to the sender
onBadCommandToSender(message, command) ==
    Invocation("onBadCommand", <<command>>,
               << [method |-> "sendMessage", chat |-> [id |-> message.from[1].id],
                   message |-> UnknownCommandText(command.command)] >>)

\* ChatBotMessageProcessor::onBadCommand
onBadCommand(message, command) ==
    Invocation("onBadCommand", <<command>>,
               << [method |-> "sendMessage", chat |-> message.chat,
                   message |-> UnknownCommandText(command.command)] >>)

\* the loop of onBotCommands: find() in the routes, the handler of the route
\* (the three handlers are empty) or onBadCommand
RECURSIVE RouteCommands(_, _)
RouteCommands(message, commands) ==
    IF commands = <<>> THEN <<>>
    ELSE LET command == Head(commands)
         IN  << IF command.command \in DOMAIN m_commandRoutes
                THEN Invocation(m_commandRoutes[command.command], <<command>>, <<>>)
                ELSE onBadCommand(message, command) >>
             \o RouteCommands(message, Tail(commands))

\* ChatBotMessageProcessor::onBotCommands
onBotCommands(message, commands) ==
    IF ~has_value(message.from) THEN <<>>
    ELSE RouteCommands(message, commands)

\* ChatBotMessageProcessor::onMessage
onMessage(message) == <<>>

\* ChatBotMessageProcessor::onMessageEdited
onMessageEdited(message) ==
    << Invocation("onMessageEdited", nullopt,
                  << [method |-> "replyMessage", chat |-> message.chat,
                      messageToReply |-> message, replyText |-> EditedReplyText] >>) >>

\* the processor called through ITelergamMessageProcessor
ChatBotMessageProcessor(call) ==
    CASE call.callback = "onBotCommands" -> onBotCommands(call.message, call.commands)
      [] call.callback = "onMessage" -> onMessage(call.message)
      [] call.callback = "onMessageEdited" -> onMessageEdited(call.message)

RECURSIVE InvocationsOf(_)
InvocationsOf(calls) ==
    IF calls = <<>> THEN <<>>
    ELSE ChatBotMessageProcessor(Head(calls)) \o InvocationsOf(Tail(calls))

RECURSIVE ServerCallsOf(_)
ServerCallsOf(invocations) ==
    IF invocations = <<>> THEN <<>>
    ELSE Head(invocations).serverCalls \o ServerCallsOf(Tail(invocations))

\* the Server operations the processor called, applied to the queue in order
RECURSIVE ServerApply(_, _, _)
ServerApply(queue, serverCalls, seq) ==
    IF serverCalls = <<>> THEN queue
    ELSE LET c == Head(serverCalls)
             pushed == IF c.method = "sendMessage"
                       THEN sendMessage(queue, c.chat, c.message, seq)
                       ELSE replyMessage(queue, c.chat, c.messageToReply, c.replyText, seq)
         IN  ServerApply(pushed, Tail(serverCalls), seq + 1)

RECURSIVE KindsOf(_)
KindsOf(serverCalls) ==
    IF serverCalls = <<>> THEN <<>>
    ELSE << IF Head(serverCalls).method = "sendMessage"
            THEN "TLSendMessage" ELSE "TLReplyMessage" >> \o KindsOf(Tail(serverCalls))

\* chats and senders of the messages
ChatIds == {1, 2}

UserIds == {3}

\* entity types the service sends, bot_command among them
EntityTypes == {"bot_command", "mention", "url"}

\* texts made of one or two words, each with an entity of any type on it; the
\* second entity's length is the number of its characters, or the index one
\* past its last character
ChatBotWords == {CmdStatus, CmdAuth, CmdGetVideo, CmdStart, CmdStatusAtBot}

ChatBotTexts ==
    {[text |-> w,
      entities |-> << [type |-> type, offset |-> 0, length |-> Len(w)] >>] :
        w \in ChatBotWords, type \in EntityTypes}
    \cup
    UNION {{[text |-> w1 \o <<" ">> \o w2,
             entities |-> << [type |-> type1, offset |-> 0, length |-> Len(w1)],
                             [type |-> type2, offset |-> Len(w1) + 1, length |-> l] >>] :
                l \in {Len(w2), Len(w1) + 1 + Len(w2)},
                type1 \in EntityTypes, type2 \in EntityTypes} :
           w1 \in ChatBotWords, w2 \in ChatBotWords}

ChatBotMessages ==
    {[message_id |-> 5, from |-> from, chat |-> [id |-> chat],
      text |-> <<t.text>>, entities |-> <<t.entities>>] :
        t \in ChatBotTexts, chat \in ChatIds,
        from \in {nullopt} \cup {<< [id |-> user] >> : user \in UserIds}}

ChatBotEdited ==
    {[message_id |-> id, from |-> nullopt, chat |-> [id |-> chat],
      text |-> << <<"e", "d">> >>, entities |-> nullopt] :
        id \in {5, 6}, chat \in ChatIds}

ChatBotUpdates ==
    {[update_id |-> 0, message |-> <<m>>, edited_message |-> nullopt] : m \in ChatBotMessages}
    \cup {[update_id |-> 0, message |-> nullopt, edited_message |-> <<e>>] : e \in ChatBotEdited}

\* The engine right after the first cycle's cursor advance, about to dispatch
\* a batch of one update drawn from ChatBotUpdates to ChatBotMessageProcessor.
InitChatBot ==
    /\ m_lastUpdateId = 1
    /\ m_isDead = FALSE
    /\ m_actionsQueue = <<>>
    /\ callerPc = "join"
    /\ asDetachedThread = FALSE
    /\ startError = NoException
    /\ startAttempts = 1
    /\ pc = [w \in Workers |-> IF w = 1 THEN "onUpdates" ELSE "none"]
    /\ offsetSent = [w \in Workers |-> 0]
    /\ \E update \in ChatBotUpdates :
          updatesList = [w \in Workers |-> IF w = 1 THEN <<update>> ELSE <<>>]
    /\ workerError = [w \in Workers |-> NoException]
    /\ failedIn = [w \in Workers |-> "none"]
    /\ aborted = FALSE
    /\ fetchCount = 1
    /\ pushedCount = 0
    /\ lastExecuted = 0
    /\ executedInOrder = TRUE
    /\ pushedOutside = FALSE
    /\ delivered = {0}
    /\ redelivered = FALSE
    /\ belowOffset = FALSE
    /\ lastHttp = <<"ok">>
    /\ getMeOutcome = <<"ok">>
    /\ lastDispatch = nullopt
    /\ request = [t \in Threads |-> nullopt]

\* Server::onUpdates handles the next update of the batch with
\* ChatBotMessageProcessor as the processor: processUpdate calls it, and the
\* Server operations its callbacks call push their actions
ChatBotDispatchStep(w) ==
    /\ ~aborted
    /\ pc[w] = "onUpdates"
    /\ \E update \in {nextUpdate(updatesList[w])} :
       \E calls \in {processUpdate(update)} :
       \E invocations \in {InvocationsOf(calls)} :
       \E serverCalls \in {ServerCallsOf(invocations)} :
            /\ m_actionsQueue' = ServerApply(m_actionsQueue, serverCalls, pushedCount + 1)
            /\ pushedCount' = pushedCount + Len(serverCalls)
            /\ lastDispatch' = << [update |-> update, calls |-> calls,
                                    pushes |-> KindsOf(serverCalls), returned |-> TRUE,
                                    invocations |-> invocations] >>
            /\ updatesList' = [updatesList EXCEPT ![w] = Tail(@)]
            /\ pc' = [pc EXCEPT ![w] = IF Tail(updatesList[w]) = <<>>
                                       THEN "drain" ELSE "onUpdates"]
    /\ UNCHANGED <<m_lastUpdateId, m_isDead, callerVars, offsetSent, workerError,
                   failedIn, aborted, lastHttp, fetchCount, lastExecuted,
                   executedInOrder, pushedOutside, delivered, redelivered,
                   belowOffset, getMeOutcome, request>>

NextChatBot ==
    \/ \E w \in Workers : ChatBotDispatchStep(w)
    \/ \E w \in Workers : DrainCheck(w)
    \/ \E w \in Workers : ActionReturn(w)

\* Application::run's server: the engine with ChatBotMessageProcessor
SpecChatBot == InitChatBot /\ [][NextChatBot]_vars

(* --------------------- action-execution specification ---------------- *)

\* texts, titles and file paths of the actions
ActionTexts == {<<>>, <<"h", "i">>, <<"/", "v", ".", "m", "p", "g">>}

\* one action of each class for every chat, text and message to reply to
OutcomingActions ==
    {[kind |-> "TLSendMessage", seq |-> 1, m_chat |-> [id |-> chat], m_text |-> text] :
        chat \in ChatIds, text \in ActionTexts}
    \cup
    {[kind |-> "TLReplyMessage", seq |-> 1, m_chat |-> [id |-> chat],
      m_messageToReply |-> message, m_replyText |-> text] :
        chat \in ChatIds, message \in ChatBotEdited, text \in ActionTexts}
    \cup
    {[kind |-> "TLSetChatTitle", seq |-> 1, m_chat |-> [id |-> chat], m_title |-> text] :
        chat \in ChatIds, text \in ActionTexts}
    \cup
    {[kind |-> "TLSendVideo", seq |-> 1, m_chat |-> [id |-> chat], m_filePath |-> text] :
        chat \in ChatIds, text \in ActionTexts}

\* The engine at the start of the drain of its first cycle, with one action
\* drawn from OutcomingActions in the queue.
InitRender ==
    /\ m_lastUpdateId = 1
    /\ m_isDead = FALSE
    /\ \E action \in OutcomingActions : m_actionsQueue = <<action>>
    /\ callerPc = "join"
    /\ asDetachedThread = FALSE
    /\ startError = NoException
    /\ startAttempts = 1
    /\ pc = [w \in Workers |-> IF w = 1 THEN "drain" ELSE "none"]
    /\ offsetSent = [w \in Workers |-> 0]
    /\ updatesList = [w \in Workers |-> <<>>]
    /\ workerError = [w \in Workers |-> NoException]
    /\ failedIn = [w \in Workers |-> "none"]
    /\ aborted = FALSE
    /\ fetchCount = 1
    /\ pushedCount = 1
    /\ lastExecuted = 0
    /\ executedInOrder = TRUE
    /\ pushedOutside = FALSE
    /\ delivered = {0}
    /\ redelivered = FALSE
    /\ belowOffset = FALSE
    /\ lastHttp = <<"ok">>
    /\ getMeOutcome = <<"ok">>
    /\ lastDispatch = nullopt
    /\ request = [t \in Threads |-> nullopt]

NextRender ==
    \/ \E w \in Workers : DrainCheck(w)
    \/ \E w \in Workers : ActionReturn(w)

\* the drain loop of workerProcedure over one queued action
SpecRender == InitRender /\ [][NextRender]_vars

(* ------------------------------ claims -------------------------------- *)

MaxOf(S) == CHOOSE x \in S : \A y \in S : y <= x

\* the exception the taxonomy prescribes for a service error code
Prescribed(c) ==
    CASE c = 401 -> <<"BadAuthorization">>
      [] c = 404 -> <<"BotNotFound">>
      [] OTHER   -> <<"UnknownError", c>>

\* C1 as stated: after a successful fetch the cursor is 1 + max(update_id in B)
\* for a non-empty batch B, whatever the cursor was, and is unchanged for an
\* empty one.
C1_CursorIsOnePastBatchMax ==
    [][\A w \in Workers :
        /\ (pc[w] = "fetched" /\ pc'[w] = "onUpdates")
              => m_lastUpdateId' = 1 + MaxOf(IdsOf(updatesList[w]))
        /\ (pc[w] = "getUpdates" /\ pc'[w] = "loop")
              => m_lastUpdateId' = m_lastUpdateId]_vars

\* C1 amended: after a successful fetch the cursor is 1 + the larger of the
\* cursor before and max(update_id in B) for a non-empty batch B, and is
\* unchanged for an empty one.
C1_CursorIsOnePastMaxOfCursorAndBatch ==
    [][\A w \in Workers :
        /\ (pc[w] = "fetched" /\ pc'[w] = "onUpdates")
              => m_lastUpdateId' =
                    1 + MaxOf(IdsOf(updatesList[w]) \cup {m_lastUpdateId})
        /\ (pc[w] = "getUpdates" /\ pc'[w] = "loop")
              => m_lastUpdateId' = m_lastUpdateId]_vars

\* C1 witness: the cursor has moved for a two-update batch whose update_ids are
\* all below the cursor the request was made with.
C1_Witness ==
    \E w \in Workers :
        /\ pc[w] = "onUpdates"
        /\ Len(updatesList[w]) = 2
        /\ \A id \in IdsOf(updatesList[w]) : id < offsetSent[w]
        /\ m_lastUpdateId = offsetSent[w] + 1

\* C2: the step in which getUpdates fails changes neither the cursor nor the
\* action queue, hands no batch to the updates callback and executes no action;
\* nor does any later step of that worker's process.
C2_FailedFetchChangesNothing ==
    [][\A w \in Workers :
        (pc'[w] = "terminated" /\ failedIn'[w] = "getUpdates")
            => /\ m_lastUpdateId' = m_lastUpdateId
               /\ m_actionsQueue' = m_actionsQueue
               /\ delivered' = delivered
               /\ lastExecuted' = lastExecuted]_vars

\* C2 witness: the second fetch has failed while an action was waiting in the
\* queue.
C2_Witness ==
    \E w \in Workers :
        /\ failedIn[w] = "getUpdates"
        /\ m_actionsQueue # <<>>
        /\ fetchCount = 2

\* C3 as stated: when getUpdates fails while the engine is not stopped, the
\* worker is back at the top of its loop with the cursor it had, ready to
\* fetch again.
C3_FailedFetchIsRetried ==
    [][\A w \in Workers :
        (pc[w] = "getUpdates" /\ failedIn'[w] = "getUpdates" /\ ~m_isDead)
            => (pc'[w] = "loop" /\ m_lastUpdateId' = m_lastUpdateId)]_vars

C6_ActionsExecuteInPushOrder ==
    /\ executedInOrder
    /\ Len(m_actionsQueue) = pushedCount - lastExecuted
    /\ \A i \in 1..Len(m_actionsQueue) : m_actionsQueue[i].seq = lastExecuted + i

\* C6 witness: two actions pushed during one dispatch have both been executed.
C6_Witness ==
    /\ ~pushedOutside
    /\ fetchCount = 1
    /\ pushedCount = 2
    /\ lastExecuted = 2

\* C7: when actions are pushed only during dispatch, the queue is empty
\* whenever a worker is at the top of its loop or has a getUpdates request out.
C7_QueueEmptyAtFetch ==
    ~pushedOutside =>
        \A w \in Workers :
            pc[w] \in {"loop", "getUpdates", "fetched"} => m_actionsQueue = <<>>

\* C7 witness: the second getUpdates request is out after a cycle that pushed
\* and executed an action.
C7_Witness ==
    \E w \in Workers :
        /\ pc[w] = "getUpdates"
        /\ fetchCount = 2
        /\ ~pushedOutside
        /\ lastExecuted >= 1

\* C8 as stated: a worker whose action execution failed goes on with the
\* drain: it has not left workerProcedure.
C8_FailedActionDoesNotAbortDrain ==
    \A w \in Workers : failedIn[w] = "onAction" => pc[w] # "terminated"

\* C9: when the getMe request of start() has ended in anything but ok:true,
\* start() has raised an error and there is no worker thread, and no fetch,
\* no dispatch and no action execution has taken place.
C9_FailedStartSpawnsNoWorker ==
    (getMeOutcome \notin {<<"none">>, <<"ok">>} /\ callerPc # "checkToken")
        => /\ callerPc = "failed"
           /\ startError # NoException
           /\ SpawnedWorkers = 0
           /\ fetchCount = 0
           /\ delivered = {}
           /\ lastExecuted = 0

\* C9 witness: start() has failed with actions waiting in the queue.
C9_Witness ==
    /\ callerPc = "failed"
    /\ getMeOutcome = <<"not_ok", 404>>
    /\ m_actionsQueue # <<>>

\* C10: the exception raised for a non-ok envelope is the prescribed one for
\* its error_code, out of start() and out of getUpdates alike, and the
\* classifier throws for every code.
C10_ErrorClassification ==
    /\ \A c \in ServiceCodes :
          processServerFailureByJsonRepresentation(c) # NoException
    /\ \A c \in ServiceCodes :
          (callerPc = "failed" /\ getMeOutcome = <<"not_ok", c>>)
              => startError = Prescribed(c)
    /\ \A w \in Workers, c \in ServiceCodes :
          (failedIn[w] = "getUpdates" /\ lastHttp = <<"not_ok", c>>)
              => workerError[w] = Prescribed(c)

\* C10 witness: getUpdates has raised BotNotFound for error_code 404 after
\* start() succeeded.
C10_Witness ==
    \E w \in Workers :
        /\ failedIn[w] = "getUpdates"
        /\ lastHttp = <<"not_ok", 404>>
        /\ workerError[w] = <<"BotNotFound">>

\* C11 as stated: whenever isReadyToDestroy() returns true, every worker has left
\* the poll loop: none is at the loop top, in a Fetch, in the updates callback
\* or in the drain.
C11_ReadyToDestroyOnlyAfterExit ==
    isReadyToDestroy =>
        \A w \in Workers : pc[w] \in {"none", "exited", "terminated"}

\* C12: stop() only sets the flag: the step that sets it moves no worker and
\* touches neither its batch nor the queue; a worker leaves workerProcedure
\* normally only from the loop top with the flag set, and then issues no
\* request and stays out; with the flag set a worker that is past the loop top
\* still takes the steps of its cycle in order (cursor advance, every update
\* of the batch, every queued action).
C12_StopObservedOnlyAtLoopTop ==
    [][\A w \in Workers :
        /\ (~m_isDead /\ m_isDead')
              => /\ pc'[w] = pc[w]
                 /\ updatesList'[w] = updatesList[w]
                 /\ m_actionsQueue' = m_actionsQueue
        /\ (pc[w] # "exited" /\ pc'[w] = "exited") => (pc[w] = "loop" /\ m_isDead)
        /\ (pc[w] = "loop" /\ m_isDead /\ pc'[w] # "loop")
              => (pc'[w] = "exited" /\ fetchCount' = fetchCount)
        /\ pc[w] = "exited" => pc'[w] = "exited"
        /\ (m_isDead /\ pc[w] = "fetched" /\ pc'[w] # pc[w]) => pc'[w] = "onUpdates"
        /\ (m_isDead /\ pc[w] = "onUpdates" /\ Len(updatesList[w]) > 1
               /\ updatesList'[w] # updatesList[w])
              => (pc'[w] = "onUpdates" /\ updatesList'[w] = Tail(updatesList[w]))
        /\ (m_isDead /\ pc[w] = "drain" /\ m_actionsQueue # <<>> /\ pc'[w] # pc[w])
              => pc'[w] = "onAction"
        /\ (m_isDead /\ pc[w] = "onAction" /\ pc'[w] # pc[w])
              => pc'[w] \in {"drain", "terminated"}]_vars

\* C12 witness: the worker has left the loop after a single cycle in which two
\* actions were pushed and both executed: the flag was set after the loop top
\* had read it as clear, and the cycle ran to its end.
C12_Witness ==
    \E w \in Workers :
        /\ pc[w] = "exited"
        /\ fetchCount = 1
        /\ ~pushedOutside
        /\ lastExecuted = 2

\* C13: once the stop flag is set while a worker thread exists, that worker
\* eventually is out of the poll loop (it has returned from workerProcedure, or
\* an exception has ended it), whatever the fetches return.
C13_WorkerLeavesLoopAfterStop ==
    \A w \in Workers :
        (m_isDead /\ pc[w] # "none") ~> (pc[w] \in {"exited", "terminated"})

\* C13 witness: the worker has left the loop after fetches that all returned an
\* empty batch.
C13_Witness ==
    \E w \in Workers :
        /\ pc[w] = "exited"
        /\ fetchCount = MaxFetches
        /\ delivered = {}
        /\ callerPc = "returned"

\* the characters t[offset], ..., t[length - 1] of a text
RangeOf(t, offset, length) ==
    [i \in 1..(IF length > offset THEN length - offset ELSE 0) |-> t[offset + i]]

\* a character sequence cut immediately before its first '@'
CutAtFirstAt(s) ==
    LET ats == {i \in 1..Len(s) : s[i] = "@"}
    IN  IF ats = {} THEN s
        ELSE SubSeq(s, 1, (CHOOSE i \in ats : \A j \in ats : i <= j) - 1)

\* C14: the command text handed to onBotCommands for a bot_command entity
\* {offset, length} over text t is t[offset] .. t[length - 1] cut immediately
\* before the first '@' of that range; {1, 5} over "/cmd@bot extra" gives
\* "cmd" and {0, 4} over "/abc" gives "/abc".
C14_CommandIsLiteralRange ==
    /\ has_value(lastDispatch) =>
          \A k \in 1..Len(lastDispatch[1].calls) :
              LET call == lastDispatch[1].calls[k]
                  entities == SelectSeq(call.message.entities[1],
                                        LAMBDA e : e.type = "bot_command")
              IN  call.callback = "onBotCommands" =>
                      /\ Len(call.commands) = Len(entities)
                      /\ \A i \in 1..Len(entities) :
                            call.commands[i].command =
                                CutAtFirstAt(RangeOf(call.message.text[1],
                                                     entities[i].offset,
                                                     entities[i].length))
    /\ CommandFrom(TextCmdAtBot, 1, 5) = <<"c", "m", "d">>
    /\ CommandFrom(TextAbc, 0, 4) = TextAbc

\* C14 witness: onBotCommands was given "cmd" for {1, 5} over
\* "/cmd@bot extra".
C14_Witness ==
    /\ has_value(lastDispatch)
    /\ lastDispatch[1].update.message[1].text[1] = TextCmdAtBot
    /\ lastDispatch[1].calls # <<>>
    /\ lastDispatch[1].calls[1].callback = "onBotCommands"
    /\ lastDispatch[1].calls[1].commands =
           << [command |-> <<"c", "m", "d">>, offset |-> 1, length |-> 5] >>

\* the calls of a callback among those recorded for the last processed update
CallsOf(callback) ==
    {k \in 1..Len(lastDispatch[1].calls) :
        lastDispatch[1].calls[k].callback = callback}

\* the bot_command entities of a message
BotCommandEntities(message) ==
    IF has_value(message.entities)
    THEN SelectSeq(message.entities[1], LAMBDA e : e.type = "bot_command")
    ELSE <<>>

\* C15: for an update whose message is present and has no bot_command entity
\* (entities absent, or none of that type), onMessage has been invoked exactly
\* once, with that message, and onBotCommands not at all.
C15_PlainMessageGoesToOnMessage ==
    has_value(lastDispatch) =>
        LET update == lastDispatch[1].update
        IN  (has_value(update.message) /\ BotCommandEntities(update.message[1]) = <<>>)
                => /\ Cardinality(CallsOf("onMessage")) = 1
                   /\ \A k \in CallsOf("onMessage") :
                         lastDispatch[1].calls[k].message = update.message[1]
                   /\ CallsOf("onBotCommands") = {}

\* C15 witness: onMessage was invoked for the message whose only entity is a
\* mention.
C15_Witness ==
    /\ has_value(lastDispatch)
    /\ lastDispatch[1].update.message = <<MsgMention>>
    /\ lastDispatch[1].calls # <<>>
    /\ lastDispatch[1].calls[1].callback = "onMessage"

\* C16: for an update whose message has at least one bot_command entity,
\* onBotCommands has been invoked exactly once, with that message and one
\* command per bot_command entity in the order of the entities, and onMessage
\* not at all; for every update with a message exactly one of onMessage and
\* onBotCommands has been invoked, once.
C16_CommandMessageGoesToOnBotCommands ==
    has_value(lastDispatch) =>
        LET update == lastDispatch[1].update
            calls == lastDispatch[1].calls
        IN  /\ (has_value(update.message) /\ BotCommandEntities(update.message[1]) # <<>>)
                => /\ Cardinality(CallsOf("onBotCommands")) = 1
                   /\ CallsOf("onMessage") = {}
                   /\ \A k \in CallsOf("onBotCommands") :
                         /\ calls[k].message = update.message[1]
                         /\ Len(calls[k].commands) =
                                Len(BotCommandEntities(update.message[1]))
                         /\ \A i \in 1..Len(calls[k].commands) :
                               /\ calls[k].commands[i].offset =
                                      BotCommandEntities(update.message[1])[i].offset
                               /\ calls[k].commands[i].length =
                                      BotCommandEntities(update.message[1])[i].length
            /\ has_value(update.message)
                => Cardinality(CallsOf("onMessage")) + Cardinality(CallsOf("onBotCommands")) = 1

\* C16 witness: onBotCommands was invoked with both commands of the message
\* that has two bot_command entities.
C16_Witness ==
    /\ has_value(lastDispatch)
    /\ lastDispatch[1].update.message = <<MsgCommand>>
    /\ Len(lastDispatch[1].calls) = 1
    /\ lastDispatch[1].calls[1].callback = "onBotCommands"
    /\ Len(lastDispatch[1].calls[1].commands) = 2

\* C17 as stated: for an update whose edited_message is present and whose
\* callbacks have all returned, onMessageEdited has been invoked exactly once,
\* with that edited message, whatever its message field holds.
C17_EditedMessageGoesToOnMessageEdited ==
    (has_value(lastDispatch) /\ lastDispatch[1].returned) =>
        LET update == lastDispatch[1].update
        IN  has_value(update.edited_message)
                => /\ Cardinality(CallsOf("onMessageEdited")) = 1
                   /\ \A k \in CallsOf("onMessageEdited") :
                         lastDispatch[1].calls[k].message = update.edited_message[1]

C19_OperationsOnlyEnqueue ==
    /\ has_value(lastDispatch) =>
          LET pushes == lastDispatch[1].pushes
              before == Len(m_actionsQueue) - Len(pushes)
          IN  /\ before >= 0
              /\ \A i \in 1..Len(pushes) :
                    /\ m_actionsQueue[before + i].kind = pushes[i]
                    /\ m_actionsQueue[before + i].seq = pushedCount - Len(pushes) + i
              /\ lastExecuted <= pushedCount - Len(pushes)
    /\ SpawnedWorkers = 0 =>
          /\ Len(m_actionsQueue) = pushedCount
          /\ lastExecuted = 0
          /\ fetchCount = 0

\* C19 witness: sendVideo was called while the last update was processed, and
\* its action is the second of two waiting in the queue.
C19_Witness ==
    /\ has_value(lastDispatch)
    /\ lastDispatch[1].pushes = <<"TLSendVideo">>
    /\ Len(m_actionsQueue) = 2
    /\ m_actionsQueue[2].kind = "TLSendVideo"

\* C20: the updates callback is entered only from a non-empty fetched batch,
\* once, with that batch as fetched (an empty batch never enters it); inside,
\* processUpdate is called for the first update still to be handled, and when
\* its callbacks have returned the updates left are the ones after it, in the
\* order received.
C20_BatchDispatchedInOrder ==
    [][/\ \A w \in Workers :
            /\ (pc[w] = "getUpdates" /\ pc'[w] = "fetched") => updatesList'[w] # <<>>
            /\ (pc[w] = "getUpdates" /\ pc'[w] = "loop") => updatesList'[w] = <<>>
            /\ (pc[w] # "onUpdates" /\ pc'[w] = "onUpdates")
                  => (pc[w] = "fetched" /\ updatesList'[w] = updatesList[w])
            /\ (pc[w] = "fetched" /\ pc'[w] # "fetched") => pc'[w] = "onUpdates"
            /\ (pc[w] = "onUpdates"
                   /\ (pc'[w] # pc[w] \/ updatesList'[w] # updatesList[w]))
                  => /\ has_value(lastDispatch')
                     /\ lastDispatch'[1].update = Head(updatesList[w])
                     /\ lastDispatch'[1].returned
                           => updatesList'[w] = Tail(updatesList[w])
       /\ (has_value(lastDispatch') /\ lastDispatch' # lastDispatch)
             => \E w \in Workers : pc[w] = "onUpdates"]_vars

\* C20 witness: a batch of two updates fetched in the first cycle has been
\* dispatched to its end.
C20_Witness ==
    \E w \in Workers :
        /\ pc[w] = "drain"
        /\ fetchCount = 1
        /\ delivered = {0, 1}
        /\ has_value(lastDispatch)
        /\ lastDispatch[1].update.update_id = 0
        /\ lastDispatch[1].calls # <<>>

\* C21: after one successful start() a single worker thread runs the loop, so
\* at most one transport call (the getMe of start(), a getUpdates or an
\* action's request) is in flight, and while an action executes no fetch, no
\* dispatch and no other action is in progress.
C21_NoParallelism ==
    LET fetching  == {w \in Workers : pc[w] = "getUpdates"}
        executing == {w \in Workers : pc[w] = "onAction"}
        dispatching == {w \in Workers : pc[w] \in {"fetched", "onUpdates"}}
        validating == IF callerPc = "checkToken" THEN 1 ELSE 0
    IN  /\ Cardinality(fetching) + Cardinality(executing) + validating <= 1
        /\ executing # {} => fetching = {} /\ dispatching = {}
        /\ Cardinality({w \in Workers : pc[w] \notin {"none", "exited", "terminated"}}) <= 1

\* an action is executing in the second cycle of the worker
C21_Witness ==
    /\ \E w \in Workers : pc[w] = "onAction"
    /\ fetchCount = MaxFetches
    /\ lastExecuted >= 1

\* C22: pushes made by another thread while the worker is in its drain loop
\* are safe: every action pushed so far has been executed or is still queued,
\* exactly once and in push order, and the queue is never left broken.
C22_ConcurrentEnqueueIsSafe ==
    /\ executedInOrder
    /\ Len(m_actionsQueue) = pushedCount - lastExecuted
    /\ \A i \in 1..Len(m_actionsQueue) : m_actionsQueue[i].seq = lastExecuted + i
    /\ \A w \in Workers : workerError[w] # <<"undefined_behaviour">>

\* C23: a start(callback, false) that has returned has seen its worker leave
\* the poll loop; a start(callback, true) has returned as soon as the worker
\* thread exists, whatever the worker is doing, and never waits in join().
C23_BlockingStartWaitsForLoopExit ==
    /\ (callerPc = "returned" /\ ~asDetachedThread)
            => (SpawnedWorkers = 1 /\ pc[1] = "exited")
    /\ (asDetachedThread /\ SpawnedWorkers >= 1) => callerPc = "returned"
    /\ callerPc = "join" => (~asDetachedThread /\ SpawnedWorkers = 1)

\* a blocking start() has returned after its worker ran a cycle with a
\* non-empty batch and was stopped
C23_Witness ==
    /\ callerPc = "returned"
    /\ ~asDetachedThread
    /\ m_isDead
    /\ delivered # {}
    /\ pc[1] = "exited"

\* C24: the cursor never decreases, and it strictly increases in every cycle
\* whose batch is non-empty, whatever the update_ids of the batch.
C24_CursorNeverDecreases ==
    [][/\ m_lastUpdateId' >= m_lastUpdateId
       /\ \A w \in Workers :
            (pc[w] = "fetched" /\ pc'[w] = "onUpdates")
                => m_lastUpdateId' > m_lastUpdateId]_vars

\* C24 amended: the same, as long as the cursor and every update_id of the
\* batch are below the largest TLId; the cursor decreases only in a cycle
\* whose batch (or the cursor itself) holds the largest TLId.
C24_CursorNeverDecreasesBelowTLIdMax ==
    [][/\ \A w \in Workers :
            (/\ pc[w] = "fetched" /\ pc'[w] = "onUpdates"
             /\ MaxOf(IdsOf(updatesList[w]) \cup {m_lastUpdateId}) < TLIdMax)
                => m_lastUpdateId' > m_lastUpdateId
       /\ m_lastUpdateId' < m_lastUpdateId
            => \E w \in Workers :
                 /\ pc[w] = "fetched" /\ pc'[w] = "onUpdates"
                 /\ TLIdMax \in IdsOf(updatesList[w]) \cup {m_lastUpdateId}]_vars

\* the cursor has moved in two cycles: past a batch, then by one for a batch
\* whose update_ids were all below it
C24_Witness ==
    \E w \in Workers :
        /\ pc[w] = "onUpdates"
        /\ fetchCount = 2
        /\ \A id \in IdsOf(updatesList[w]) : id < offsetSent[w]
        /\ offsetSent[w] >= 1
        /\ m_lastUpdateId = offsetSent[w] + 1

\* the four conditions of the error taxonomy
Taxonomy ==
    {<<"BadAuthorization">>, <<"BotNotFound">>, <<"DeadWall">>}
        \cup {<<"UnknownError", c>> : c \in ServiceCodes}

\* C25: whatever is thrown out of start() or out of getUpdates is one of
\* BadAuthorization, BotNotFound, DeadWall and UnknownError(code), and a
\* request that timed out is reported as DeadWall.
C25_ErrorsStayInTaxonomy ==
    /\ callerPc = "failed" => startError \in Taxonomy
    /\ (callerPc = "failed" /\ lastHttp = <<"timeout">>) => startError = <<"DeadWall">>
    /\ \A w \in Workers :
          failedIn[w] = "getUpdates"
              => /\ workerError[w] \in Taxonomy
                 /\ lastHttp = <<"timeout">> => workerError[w] = <<"DeadWall">>

\* the handler registered under a command string, if any
RegisteredHandler(command) ==
    CASE command = CmdStatus -> <<"onStatusRequest">>
      [] command = CmdAuth -> <<"onAuthorizationRequest">>
      [] command = CmdGetVideo -> <<"onVideoRequest">>
      [] OTHER -> <<>>

\* the commands of a list that have no handler, in order
Unrouted(commands) == SelectSeq(commands, LAMBDA c : RegisteredHandler(c.command) = <<>>)

\* the onBotCommands call of the last dispatched update was routed command by
\* command: one invocation per command, in order, which is the registered
\* handler (and no reply) or the unknown-command reply; and the queue holds
\* exactly the replies, each a TLSendMessage to the message's chat
RoutedCommandByCommand(call) ==
    LET d == lastDispatch[1]
        unrouted == Unrouted(call.commands)
    IN  /\ Len(d.invocations) = Len(call.commands)
        /\ \A i \in 1..Len(call.commands) :
              LET c == call.commands[i]
                  inv == d.invocations[i]
              IN  /\ inv.command = <<c>>
                  /\ IF RegisteredHandler(c.command) # <<>>
                     THEN /\ <<inv.handler>> = RegisteredHandler(c.command)
                          /\ inv.serverCalls = <<>>
                     ELSE /\ inv.handler = "onBadCommand"
                          /\ Len(inv.serverCalls) = 1
        /\ Len(m_actionsQueue) = Len(unrouted)
        /\ \A j \in 1..Len(unrouted) :
              /\ m_actionsQueue[j].kind = "TLSendMessage"
              /\ m_actionsQueue[j].m_chat = call.message.chat
              /\ m_actionsQueue[j].m_text =
                    <<"Unknown command \"">> \o unrouted[j].command \o <<"\".">>

\* C26: for every command delivered to onBotCommands the handler registered
\* under exactly that string is invoked once, or, when none is registered, one
\* "Unknown command" TLSendMessage addressed to the message's chat is enqueued.
C26_EveryCommandIsRouted ==
    has_value(lastDispatch) =>
        \A i \in 1..Len(lastDispatch[1].calls) :
            LET call == lastDispatch[1].calls[i]
            IN  call.callback = "onBotCommands" => RoutedCommandByCommand(call)

\* C26 amended: that holds for the commands of a message that has a sender
\* (from); for a message without one onBotCommands routes nothing and
\* enqueues nothing.
C26_CommandsOfMessagesWithSenderAreRouted ==
    has_value(lastDispatch) =>
        \A i \in 1..Len(lastDispatch[1].calls) :
            LET call == lastDispatch[1].calls[i]
            IN  call.callback = "onBotCommands" =>
                    IF has_value(call.message.from)
                    THEN RoutedCommandByCommand(call)
                    ELSE /\ lastDispatch[1].invocations = <<>>
                         /\ m_actionsQueue = <<>>

\* a message with a sender and two commands, the first with a handler and the
\* second without, has been dispatched
C26_Witness ==
    /\ has_value(lastDispatch)
    /\ Len(lastDispatch[1].calls) = 1
    /\ lastDispatch[1].calls[1].callback = "onBotCommands"
    /\ has_value(lastDispatch[1].calls[1].message.from)
    /\ Len(lastDispatch[1].calls[1].commands) = 2
    /\ lastDispatch[1].calls[1].commands[1].command = CmdAuth
    /\ lastDispatch[1].calls[1].commands[2].command = CmdStart
    /\ Len(m_actionsQueue) = 1

\* C27: the step in which getUpdates returns an empty batch changes neither
\* the cursor nor the queue, invokes no callback and executes no action, and
\* leaves the worker at the loop test, from where it can only test the flag
\* and issue the next getUpdates (or leave the loop).
C27_EmptyBatchCycleDoesNothing ==
    [][\A w \in Workers :
        /\ (/\ pc[w] = "getUpdates" /\ pc'[w] \notin {"getUpdates", "terminated"}
            /\ updatesList'[w] = <<>>)
              => /\ pc'[w] = "loop"
                 /\ m_lastUpdateId' = m_lastUpdateId
                 /\ m_actionsQueue' = m_actionsQueue
                 /\ delivered' = delivered
                 /\ lastDispatch' = lastDispatch
                 /\ lastExecuted' = lastExecuted
                 /\ pushedCount' = pushedCount
        /\ (pc[w] = "loop" /\ pc'[w] # "loop")
              => /\ pc'[w] \in {"getUpdates", "exited"}
                 /\ m_lastUpdateId' = m_lastUpdateId
                 /\ m_actionsQueue' = m_actionsQueue
                 /\ delivered' = delivered
                 /\ lastExecuted' = lastExecuted]_vars

\* the second getUpdates request is out after a cycle with an empty batch,
\* while an action pushed before start() is still waiting in the queue
C27_Witness ==
    \E w \in Workers :
        /\ pc[w] = "getUpdates"
        /\ fetchCount = 2
        /\ delivered = {}
        /\ m_lastUpdateId = 0
        /\ m_actionsQueue # <<>>
        /\ lastExecuted = 0

\* C28: the command list handed to onBotCommands has one BotCommand per
\* bot_command entity of the message, in the order of the entities, each with
\* the offset and length of its entity; entities of other types add nothing,
\* and a message none of whose entities is a bot_command gets no onBotCommands
\* call.
C28_OneCommandPerBotCommandEntity ==
    has_value(lastDispatch) =>
        LET update == lastDispatch[1].update
            calls == lastDispatch[1].calls
        IN  /\ \A k \in CallsOf("onBotCommands") :
                  LET entities == BotCommandEntities(calls[k].message)
                  IN  /\ has_value(calls[k].message.entities)
                      /\ [i \in 1..Len(calls[k].commands) |->
                            <<calls[k].commands[i].offset, calls[k].commands[i].length>>]
                         = [i \in 1..Len(entities) |->
                            <<entities[i].offset, entities[i].length>>]
            /\ (has_value(update.message) /\ BotCommandEntities(update.message[1]) = <<>>)
                  => CallsOf("onBotCommands") = {}

\* a message whose entities are a mention and then a bot_command has been
\* dispatched: onBotCommands got the one command of the second entity
C28_Witness ==
    /\ has_value(lastDispatch)
    /\ Len(lastDispatch[1].calls) = 1
    /\ lastDispatch[1].calls[1].callback = "onBotCommands"
    /\ Len(lastDispatch[1].calls[1].message.entities[1]) = 2
    /\ lastDispatch[1].calls[1].message.entities[1][1].type = "mention"
    /\ Len(lastDispatch[1].calls[1].commands) = 1
    /\ lastDispatch[1].calls[1].commands[1].offset > 0

\* the number a string of decimal digits denotes
DigitValue(d) == CHOOSE v \in 0..9 : <<"0", "1", "2", "3", "4", "5", "6", "7", "8", "9">>[v + 1] = d

RECURSIVE FromDecimal(_)
FromDecimal(digits) ==
    IF Len(digits) = 1 THEN DigitValue(digits[1])
    ELSE 10 * FromDecimal(SubSeq(digits, 1, Len(digits) - 1)) + DigitValue(digits[Len(digits)])

\* C29: a getUpdates request that is out carries exactly offset, limit and
\* timeout: the offset is the cursor (which nothing changes while the request
\* is out), the limit is 256 and the timeout 15. So two requests with no
\* cursor advance between them carry the same offset.
C29_FetchCarriesCursorLimitTimeout ==
    \A w \in Workers :
        pc[w] = "getUpdates" =>
            /\ has_value(request[w])
            /\ request[w][1].method = "getUpdates"
            /\ DOMAIN request[w][1].parameters = {"offset", "limit", "timeout"}
            /\ FromDecimal(request[w][1].parameters.offset) = m_lastUpdateId
            /\ FromDecimal(request[w][1].parameters.limit) = 256
            /\ FromDecimal(request[w][1].parameters.timeout) = 15

\* the second getUpdates request is out after the cursor has moved past a
\* batch
C29_Witness ==
    \E w \in Workers :
        /\ pc[w] = "getUpdates"
        /\ fetchCount = 2
        /\ delivered # {}
        /\ m_lastUpdateId = MaxUpdateId + 1
        /\ has_value(request[w])

\* C30: while an action executes, exactly one request is out, and it is the
\* one its kind prescribes: sendMessage with chat_id and text for
\* TLSendMessage and TLReplyMessage, the latter with the message_id of the
\* message replied to as reply_to_message_id; setChatTitle with chat_id and
\* title for TLSetChatTitle; and TLSendVideo, alone, goes through the
\* file-upload call (sendVideo with chat_id and the file attached).
C30_ActionRendersOneCall ==
    \A w \in Workers :
        pc[w] = "onAction" =>
            LET action == m_actionsQueue[1]
                r == request[w][1]
            IN  /\ has_value(request[w])
                /\ \A t \in Threads \ {w} : request[t] = nullopt
                /\ FromDecimal(r.parameters.chat_id) = action.m_chat.id
                /\ (r.call = "performHttpRequestWithAttachedFile")
                        <=> (action.kind = "TLSendVideo")
                /\ action.kind # "TLSendVideo" => r.call = "performHttpRequestWithoutResponse"
                /\ action.kind = "TLSendMessage" =>
                        /\ r.method = "sendMessage"
                        /\ DOMAIN r.parameters = {"chat_id", "text"}
                        /\ r.parameters.text = action.m_text
                /\ action.kind = "TLReplyMessage" =>
                        /\ r.method = "sendMessage"
                        /\ DOMAIN r.parameters = {"chat_id", "text", "reply_to_message_id"}
                        /\ r.parameters.text = action.m_replyText
                        /\ FromDecimal(r.parameters.reply_to_message_id)
                              = action.m_messageToReply.message_id
                /\ action.kind = "TLSetChatTitle" =>
                        /\ r.method = "setChatTitle"
                        /\ DOMAIN r.parameters = {"chat_id", "title"}
                        /\ r.parameters.title = action.m_title
                /\ action.kind = "TLSendVideo" =>
                        /\ r.method = "sendVideo"
                        /\ DOMAIN r.parameters = {"chat_id"}
                        /\ r.localFilePath = action.m_filePath

\* a TLReplyMessage to chat 2 for message 6 of chat 1 is executing
C30_Witness ==
    \E w \in Workers :
        /\ pc[w] = "onAction"
        /\ m_actionsQueue[1].kind = "TLReplyMessage"
        /\ m_actionsQueue[1].m_chat.id = 2
        /\ m_actionsQueue[1].m_messageToReply.message_id = 6
        /\ m_actionsQueue[1].m_messageToReply.chat.id = 1
        /\ has_value(request[w])

\* C31: a worker enters the drain only when the updates callback of a
\* non-empty batch has returned, and an action is executed only inside the
\* drain; so as long as no non-empty batch has been fetched, nothing in the
\* queue is executed, however many fetches have returned empty.
C31_DrainOnlyAfterNonEmptyBatch ==
    [][/\ \A w \in Workers :
            (pc'[w] \in {"drain", "onAction"} /\ pc[w] \notin {"drain", "onAction"})
                => (pc[w] = "onUpdates" /\ pc'[w] = "drain" /\ delivered # {})
       /\ lastExecuted' # lastExecuted => \E w \in Workers : pc[w] = "onAction"
       /\ delivered' = {} => (lastExecuted' = 0 /\ Len(m_actionsQueue') = pushedCount')]_vars

\* every fetch allowed has returned an empty batch and the action pushed
\* before start() is still in the queue
C31_Witness ==
    \E w \in Workers :
        /\ pc[w] = "loop"
        /\ fetchCount = MaxFetches
        /\ delivered = {}
        /\ m_actionsQueue # <<>>
        /\ lastExecuted = 0

\* the queue holds, in push order, every action pushed and not yet executed,
\* and its head is the action the request of thread w was made for
HeadIsActionOf(w) ==
    /\ m_actionsQueue # <<>>
    /\ Len(m_actionsQueue) = pushedCount - lastExecuted
    /\ \A i \in 1..Len(m_actionsQueue) : m_actionsQueue[i].seq = lastExecuted + i
    /\ has_value(request[w])
    /\ (request[w][1].call = "performHttpRequestWithAttachedFile")
            <=> (m_actionsQueue[1].kind = "TLSendVideo")
    /\ (request[w][1].method = "setChatTitle")
            <=> (m_actionsQueue[1].kind = "TLSetChatTitle")
    /\ ("reply_to_message_id" \in DOMAIN request[w][1].parameters)
            <=> (m_actionsQueue[1].kind = "TLReplyMessage")

\* C32: while an action executes it is still the head of the queue, and when
\* its onAction throws it stays the head, the actions pushed after it behind
\* it in push order.
C32_ActionPoppedOnlyAfterReturn ==
    \A w \in Workers :
        (pc[w] = "onAction" \/ failedIn[w] = "onAction") => HeadIsActionOf(w)

\* the request of the first of two queued actions has failed
C32_Witness ==
    \E w \in Workers :
        /\ failedIn[w] = "onAction"
        /\ Len(m_actionsQueue) = 2
        /\ m_actionsQueue[1].kind # m_actionsQueue[2].kind
        /\ lastExecuted = 0

\* C33: with a caller that starts detached, calls stop(), waits for
\* isReadyToDestroy() and starts again, at most one worker thread is in the
\* poll loop at any time.
C33_OneWorkerAfterRestart ==
    Cardinality({w \in Workers : pc[w] \notin {"none", "exited", "terminated"}}) <= 1

\* C34: while actions are pushed only by the updates callback, the action
\* queue is empty whenever the worker is at the loop test and when it has left
\* the loop on the stop flag: stop() at any point of a cycle, also in the
\* middle of the dispatch, leaves no pushed action unexecuted at the exit.
C34_QueueEmptyAtExit ==
    ~pushedOutside =>
        \A w \in Workers :
            pc[w] \in {"loop", "exited"} =>
                /\ m_actionsQueue = <<>>
                /\ lastExecuted = pushedCount

C34_Witness ==
    \E w \in Workers :
        /\ pc[w] = "exited"
        /\ m_isDead
        /\ ~pushedOutside
        /\ pushedCount = MaxActions
        /\ lastExecuted = pushedCount
        /\ m_actionsQueue = <<>>

\* C35: when the message of the processed update has a bot_command entity
\* whose offset is not below its length, the only callback invoked is
\* onBotCommands (never onMessage), and the command made of that entity, at
\* its place in the list, has empty text and the entity's offset and length.
C35_EmptyCommandStillRouted ==
    (has_value(lastDispatch) /\ has_value(lastDispatch[1].update.message)) =>
        LET message == lastDispatch[1].update.message[1]
            entities == BotCommandEntities(message)
            calls == lastDispatch[1].calls
        IN  \A i \in 1..Len(entities) :
                entities[i].offset >= entities[i].length =>
                    /\ Len(calls) = 1
                    /\ calls[1].callback = "onBotCommands"
                    /\ calls[1].message = message
                    /\ Len(calls[1].commands) = Len(entities)
                    /\ calls[1].commands[i] =
                           [command |-> <<>>,
                            offset |-> entities[i].offset,
                            length |-> entities[i].length]

\* C35 witness: onBotCommands was given the single command "" made of the
\* entity {2, 1} over a text of three characters.
C35_Witness ==
    /\ has_value(lastDispatch)
    /\ has_value(lastDispatch[1].update.message)
    /\ Len(lastDispatch[1].update.message[1].text[1]) = 3
    /\ BotCommandEntities(lastDispatch[1].update.message[1]) =
           << [type |-> "bot_command", offset |-> 2, length |-> 1] >>
    /\ lastDispatch[1].calls # <<>>
    /\ lastDispatch[1].calls[1].callback = "onBotCommands"
    /\ lastDispatch[1].calls[1].commands =
           << [command |-> <<>>, offset |-> 2, length |-> 1] >>

\* C36: the step of start() that sends the getMe request leaves the stop flag
\* clear whatever it was before, so also after a stop(); the step in which
\* checkToken throws out of start() changes neither the flag nor the workers,
\* of which there is none; so isReadyToDestroy() is false after the failed
\* start() unless stop() is called again, which alone sets the flag.
C36_FailedStartLeavesFlagClear ==
    [][/\ (callerPc # "checkToken" /\ callerPc' = "checkToken") => ~m_isDead'
       /\ (callerPc = "checkToken" /\ callerPc' = "failed")
              => /\ m_isDead' = m_isDead
                 /\ startError' # NoException
                 /\ \A w \in Workers : pc[w] = "none" /\ pc'[w] = "none"
       /\ (~m_isDead /\ m_isDead') => (callerPc' = callerPc /\ pc' = pc)]_vars

\* C36 witness: start() has failed on a 401 answer to getMe, no worker thread
\* was made and isReadyToDestroy() returns false.
C36_Witness ==
    /\ callerPc = "failed"
    /\ startError # NoException
    /\ getMeOutcome = <<"not_ok", BadAuthorization>>
    /\ ~isReadyToDestroy
    /\ SpawnedWorkers = 0

====
